---- MODULE Spec2Model ----
(***************************************************************************)
(* Model of tk_utils_core's source-structure parser                        *)
(* (tk_utils_core/core/codeparser/_parso.py): ParsedFunc, which slices a   *)
(* function into decorators / signature / docstring / body, and            *)
(* ModuleDefs, which indexes a module's definitions, imports and           *)
(* variables under dotted names.                                           *)
(*                                                                         *)
(* Representation                                                          *)
(*   - A Python value is a record with a tag `py`: None, a str, a parso    *)
(*     node, a function object, a namedtuple.                              *)
(*   - Source text is a sequence of atoms (strings); every token of the    *)
(*     source is one atom, a space of indentation is the atom " " and a    *)
(*     line break the atom "\n".  Concatenation of text is \o.             *)
(*   - A parso node carries type, value, prefix (the whitespace before a   *)
(*     leaf), line (its start position, which tells two nodes of equal     *)
(*     shape apart) and children.  get_code is the concatenation of the    *)
(*     leaves' prefix and value, as in parso.                              *)
(*   - A dict is the sequence of its items, in insertion order.            *)
(***************************************************************************)
EXTENDS Naturals, Sequences, FiniteSets, TLC

VARIABLES
    pf,     \* the ParsedFunc instance: constructor arguments, attributes, caches
    md,     \* the ModuleDefs instance: attributes and caches
    cfg,    \* the BaseConfig instance (an Options), and where the program is
            \* with respect to a block on it
    fs,     \* the files and folders under the two folders given to safe_copytree
    scan,   \* the leading scan of the suite property: where it is and its locals
    ret     \* outcome of the last call: a value, a raised exception, or no return

vars == <<pf, md, cfg, fs, scan, ret>>

(***************************************************************************)
(* Bounds of the model.                                                    *)
(***************************************************************************)
\* Largest number of statements in a function's indented block.
MaxStmts == 2
\* Largest number of indexed nodes (definitions, imports, assignments) in a module.
MaxNodes == 3

(***************************************************************************)
(* Python values.                                                          *)
(***************************************************************************)
None == [py |-> "None"]
Unset == [py |-> "unset"]
Str(s) == [py |-> "str", s |-> s]
IsNone(x) == x.py = "None"
IsSet(x) == x.py # "unset"

\* Outcome of a call.
Value(v) == [kind |-> "value", val |-> v, err |-> ""]
Raise(e) == [kind |-> "raise", val |-> None, err |-> e]
Diverges == [kind |-> "diverges", val |-> None, err |-> ""]
NoCall == [kind |-> "none", val |-> None, err |-> ""]

(***************************************************************************)
(* parso nodes.                                                            *)
(***************************************************************************)
Leaf(type, value, prefix, line) ==
    [py |-> "node", type |-> type, value |-> value, prefix |-> prefix,
     line |-> line, children |-> <<>>]

Node(type, children) ==
    [py |-> "node", type |-> type, value |-> "", prefix |-> <<>>,
     line |-> children[1].line, children |-> children]

LeafTypes ==
    {"keyword", "name", "operator", "string", "number", "newline", "endmarker", "error_leaf"}

RECURSIVE get_code(_)
get_code(n) ==
    IF n.type \in LeafTypes
    THEN n.prefix \o (IF n.value = "" THEN <<>> ELSE <<n.value>>)
    ELSE LET RECURSIVE cat(_)
             cat(cs) == IF cs = <<>> THEN <<>> ELSE get_code(Head(cs)) \o cat(Tail(cs))
         IN cat(n.children)

\* ''.join(n.get_code() for n in nodes)
RECURSIVE join_codes(_)
join_codes(nodes) ==
    IF nodes = <<>> THEN <<>> ELSE get_code(Head(nodes)) \o join_codes(Tail(nodes))

(***************************************************************************)
(* The sources handed to ParsedFunc: one function definition, with or      *)
(* without decorators and return annotation, whose body is either an       *)
(* indented block (suite) or a statement on the def line.  parso's grammar *)
(* is  funcdef: 'def' NAME parameters ['->' test] ':' suite,               *)
(*     suite: simple_stmt | NEWLINE INDENT stmt+ DEDENT;                   *)
(* blank lines go to the prefix of the next token, so a block holds the    *)
(* newline that ends the def line and then its statements.                 *)
(***************************************************************************)
\* Largest number of decorators on a function.
MaxDecor == 2
MaxIndent == 1
MaxDepth == 3

Newline(ln) == Leaf("newline", "\n", <<>>, ln)

\* A docstring-like statement: simple_stmt whose first child is a string leaf.
StmtDoc(ind, ln) ==
    Node("simple_stmt", <<Leaf("string", "'''Doc.'''", ind, ln), Newline(ln)>>)

\* A simple statement whose first child is not a string: `return x`.
StmtReturn(ind, ln) ==
    Node("simple_stmt",
         <<Node("return_stmt", <<Leaf("keyword", "return", ind, ln),
                                 Leaf("name", "x", <<" ">>, ln)>>),
           Newline(ln)>>)

\* The statement `pass`.
StmtPass(ind, ln) ==
    Node("simple_stmt", <<Leaf("keyword", "pass", ind, ln), Newline(ln)>>)

\* A compound statement: `if x:` with a one-statement block.
StmtIf(ind, ln) ==
    Node("if_stmt",
         <<Leaf("keyword", "if", ind, ln), Leaf("name", "x", <<" ">>, ln),
           Leaf("operator", ":", <<>>, ln),
           Node("suite", <<Newline(ln), StmtPass(ind \o <<" ">>, ln + 1)>>)>>)

StmtKinds == {"doc", "simple", "pass", "if"}

MkStmt(kind, ind, ln) ==
    CASE kind = "doc" -> StmtDoc(ind, ln)
      [] kind = "simple" -> StmtReturn(ind, ln)
      [] kind = "pass" -> StmtPass(ind, ln)
      [] kind = "if" -> StmtIf(ind, ln)

\* The shapes of a function: number of decorators, return annotation or not,
\* block or one-line body, and the kinds of the body's statements.
BlockBodies == UNION {[1..n -> StmtKinds] : n \in 1..MaxStmts}
InlineBodies == {<<"simple">>, <<"doc">>}

\* indent is the number of spaces the definition is indented by in its
\* source: 0 for a function of a module, more for a method or a nested one.
ShapesWith(indents) ==
    [ndecor : 0..MaxDecor, ann : BOOLEAN, block : {TRUE}, stmts : BlockBodies,
     indent : indents]
    \cup [ndecor : 0..MaxDecor, ann : BOOLEAN, block : {FALSE}, stmts : InlineBodies,
          indent : indents]

FuncShapes == ShapesWith({0})
IndentedShapes == ShapesWith(0..MaxIndent)

Spaces(n) == [i \in 1..n |-> " "]

\* The i-th decorator of a function, on line ln: pre is the prefix of its
\* `@`, everything the source has between the token before it and the `@`.
MkDecoratorAt(i, pre, ln) ==
    Node("decorator", <<Leaf("operator", "@", pre, ln),
                        Leaf("name", IF i = 1 THEN "trace" ELSE "wraps", <<>>, ln),
                        Newline(ln)>>)

MkDecorator(i, ind) == MkDecoratorAt(i, ind, i)

\* The lines a statement takes, and the statements of a block from line
\* ln on: each starts on the line after the one before it ends.
StmtLines(kind) == IF kind = "if" THEN 2 ELSE 1

RECURSIVE MkStmts(_, _, _)
MkStmts(kinds, ind, ln) ==
    IF kinds = <<>> THEN <<>>
    ELSE <<MkStmt(Head(kinds), ind, ln)>>
         \o MkStmts(Tail(kinds), ind, ln + StmtLines(Head(kinds)))

MkSuite(shape, ln) ==
    IF shape.block
    THEN Node("suite",
              <<Newline(ln)>> \o MkStmts(shape.stmts, Spaces(shape.indent + 1), ln + 1))
    ELSE IF shape.stmts[1] = "doc"
         THEN StmtDoc(<<" ">>, ln)
         ELSE StmtReturn(<<" ">>, ln)

\* The definition whose `def` is on line ln, with the prefix pre.
MkFuncdefAt(name, shape, pre, ln) ==
    Node("funcdef",
         <<Leaf("keyword", "def", pre, ln),
           Leaf("name", name, <<" ">>, ln),
           Node("parameters", <<Leaf("operator", "(", <<>>, ln),
                                Node("param", <<Leaf("name", "x", <<>>, ln)>>),
                                Leaf("operator", ")", <<>>, ln)>>)>>
         \o (IF shape.ann
             THEN <<Leaf("operator", "->", <<" ">>, ln), Leaf("name", "int", <<" ">>, ln)>>
             ELSE <<>>)
         \o <<Leaf("operator", ":", <<>>, ln), MkSuite(shape, ln)>>)

MkFuncdef(name, shape) ==
    MkFuncdefAt(name, shape, Spaces(shape.indent), shape.ndecor + 1)

\* A function with decorators is wrapped in a `decorated` node, whose first
\* child is the decorator, or a `decorators` node when there are several.
MkDefinition(name, shape) ==
    IF shape.ndecor = 0 THEN MkFuncdef(name, shape)
    ELSE IF shape.ndecor = 1
         THEN Node("decorated",
                   <<MkDecorator(1, Spaces(shape.indent)), MkFuncdef(name, shape)>>)
         ELSE Node("decorated",
                   <<Node("decorators",
                          [i \in 1..shape.ndecor |-> MkDecorator(i, Spaces(shape.indent))]),
                     MkFuncdef(name, shape)>>)

\* The end marker starts where the text ends: on the line after the last
\* line break.
LineBreaks(text) == Len(SelectSeq(text, LAMBDA c : c = "\n"))

MkModule(stmts) ==
    Node("file_input",
         stmts \o <<Leaf("endmarker", "", <<>>, LineBreaks(join_codes(stmts)) + 1)>>)

\* The text of an indented definition opens with an indent no statement
\* of a module may open with: the parser recovers by leaving an empty error
\* leaf for it, and parses the definition after it as written.
ErrorLeaf == Leaf("error_leaf", "", <<>>, 1)

FuncModule(name, shape) ==
    MkModule((IF shape.indent > 0 THEN <<ErrorLeaf>> ELSE <<>>)
             \o <<MkDefinition(name, shape)>>)

\* Every parse tree ParsedFunc is given, and the text of each.
FuncTrees == {FuncModule("f", shape) : shape \in IndentedShapes}

(***************************************************************************)
(* Sources with text around the decorators of `f`.  The parser keeps the   *)
(* comments, blank lines and indentation that come before a token in that  *)
(* token's prefix, so they belong to the node the token opens:             *)
(*   lead     what the source has before the first line of the definition: *)
(*            nothing, a comment line or a blank line;                     *)
(*   between  a comment line before the second decorator;                  *)
(*   above    a comment line between the last decorator and `def`;         *)
(*   earlier  a decorated function `g` defined before `f`.                 *)
(***************************************************************************)
LeadTexts == {<<>>, <<"# c", "\n">>, <<"\n">>}

DecorShapes ==
    {d \in [ndecor : 0..MaxDecor, ann : {FALSE}, block : {TRUE}, stmts : {<<"doc">>},
            indent : 0..MaxIndent, lead : LeadTexts, between : BOOLEAN,
            above : BOOLEAN, earlier : BOOLEAN] :
        /\ d.between => d.ndecor >= 2
        /\ d.above => d.ndecor >= 1
        /\ d.earlier => d.indent = 0}

\* A comment line at the indentation of the definition.
CommentLine(d, c) == Spaces(d.indent) \o <<c, "\n">>

EarlierShape ==
    [ndecor |-> 1, ann |-> FALSE, block |-> TRUE, stmts |-> <<"doc">>, indent |-> 0]
\* The lines the earlier function takes: its decorator, its `def` line and
\* the statements of its block.
EarlierLines == EarlierShape.ndecor + 1 + Len(EarlierShape.stmts)

\* The line of the first token of the definition of `f`.
FirstLine(d) == (IF d.earlier THEN EarlierLines ELSE 0) + LineBreaks(d.lead) + 1

DecorPrefix(d, i) ==
    (IF i = 1 THEN d.lead
     ELSE IF i = 2 /\ d.between THEN CommentLine(d, "# d")
     ELSE <<>>)
    \o Spaces(d.indent)

DecorLine(d, i) == FirstLine(d) + (i - 1) + (IF i >= 2 /\ d.between THEN 1 ELSE 0)

DefPrefix(d) ==
    (IF d.ndecor = 0 THEN d.lead
     ELSE IF d.above THEN CommentLine(d, "# e")
     ELSE <<>>)
    \o Spaces(d.indent)

DefLine(d) ==
    FirstLine(d) + d.ndecor + (IF d.between THEN 1 ELSE 0) + (IF d.above THEN 1 ELSE 0)

\* A definition under the decorators decs: as it is without any, wrapped
\* in a `decorated` node with one, and with a `decorators` node for more.
Decorated(decs, fdef) ==
    IF decs = <<>> THEN fdef
    ELSE Node("decorated", <<IF Len(decs) = 1 THEN decs[1] ELSE Node("decorators", decs),
                             fdef>>)

MkDecorDefinition(name, d) ==
    Decorated([i \in 1..d.ndecor |-> MkDecoratorAt(i, DecorPrefix(d, i), DecorLine(d, i))],
              MkFuncdefAt(name, d, DefPrefix(d), DefLine(d)))

\* The error leaf of an indented definition sits where its first token is;
\* the earlier function takes the first lines of the source.
DecorModule(name, d) ==
    MkModule((IF d.indent > 0
              THEN <<Leaf("error_leaf", "", <<>>, FirstLine(d))>> ELSE <<>>)
             \o (IF d.earlier
                 THEN <<Decorated(<<MkDecoratorAt(1, <<>>, 1)>>,
                                  MkFuncdefAt("g", EarlierShape, <<>>,
                                              EarlierShape.ndecor + 1))>>
                 ELSE <<>>)
             \o <<MkDecorDefinition(name, d)>>)

DecorTrees == {DecorModule("f", d) : d \in DecorShapes}

\* parso.parse: the tree whose code is the text (parso's round trip).
ParseTable == {<<get_code(t), t>> : t \in FuncTrees \cup DecorTrees}

parse(text) == (CHOOSE e \in ParseTable : e[1] = text)[2]

\* A function object: __name__, __doc__ (None without a docstring) and the
\* source text inspect.getsource recovers for it.
HasPyDoc(shape) == shape.stmts[1] = "doc"

Callable(name, shape) ==
    [py |-> "function", name |-> name,
     doc |-> IF HasPyDoc(shape) THEN Str(<<"Doc.">>) ELSE None,
     source |-> get_code(FuncModule(name, shape))]

(***************************************************************************)
(* parso's scope search and decorators, as ParsedFunc uses them.           *)
(***************************************************************************)
FuncContainers ==
    {"suite", "simple_stmt", "decorated", "async_funcdef", "async_stmt",
     "if_stmt", "while_stmt", "for_stmt", "try_stmt", "with_stmt"}

\* node._search_in_scope(*types): the nodes of these types in the node's own
\* scope, in document order; blocks and flow statements are searched, the
\* bodies of the definitions found are not.
RECURSIVE scan_scope(_, _)
scan_scope(children, types) ==
    IF children = <<>> THEN <<>>
    ELSE LET e == Head(children) IN
         (IF e.type \in types THEN <<e>> ELSE <<>>)
         \o (IF e.type \in FuncContainers THEN scan_scope(e.children, types) ELSE <<>>)
         \o scan_scope(Tail(children), types)

\* A search that goes into the bodies of the definitions too.
RECURSIVE scan_nested(_, _)
scan_nested(children, types) ==
    IF children = <<>> THEN <<>>
    ELSE (IF Head(children).type \in types THEN <<Head(children)>> ELSE <<>>)
         \o scan_nested(Head(children).children, types)
         \o scan_nested(Tail(children), types)

iter_funcdefs_nested(tree) == scan_nested(tree.children, {"funcdef"})

\* Module.iter_funcdefs()
iter_funcdefs(tree) == scan_scope(tree.children, {"funcdef"})

\* The node whose children hold `n` (nodes are told apart by type and line).
SameNode(a, b) == a.type = b.type /\ a.line = b.line /\ a = b

RECURSIVE parent_of(_, _)
parent_of(root, n) ==
    IF \E i \in DOMAIN root.children : SameNode(root.children[i], n)
    THEN root
    ELSE LET RECURSIVE first(_)
             first(cs) ==
                 IF cs = <<>> THEN None
                 ELSE LET r == parent_of(Head(cs), n)
                      IN IF IsNone(r) THEN first(Tail(cs)) ELSE r
         IN first(root.children)

\* Function.get_decorators()
get_decorators(tree, funcnode) ==
    LET decorated == parent_of(tree, funcnode) IN
    IF decorated.type = "decorated"
    THEN IF decorated.children[1].type = "decorators"
         THEN decorated.children[1].children
         ELSE SubSeq(decorated.children, 1, 1)
    ELSE <<>>

(***************************************************************************)
(* _ParsedFuncNodes                                                        *)
(***************************************************************************)
FUNC_SIG_ATTRS == <<"kw_def", "name", "parms", "arrow", "annotation", "colon">>

FuncParts(kw_def, name, parms, arrow, annotation, colon, suite) ==
    [py |-> "FuncParts", kw_def |-> kw_def, name |-> name, parms |-> parms,
     arrow |-> arrow, annotation |-> annotation, colon |-> colon, suite |-> suite]

FuncSuiteParts(newlines, doc, body) ==
    [py |-> "FuncSuiteParts", newlines |-> newlines, doc |-> doc, body |-> body]

List(items) == [py |-> "list", items |-> items]

\* A decomposition that keeps the annotation and forgets the arrow.
parts_without_arrow(funcnode) ==
    IF Len(funcnode.children) = 5
    THEN Value(FuncParts(funcnode.children[1], funcnode.children[2],
                         funcnode.children[3], None, None,
                         funcnode.children[4], funcnode.children[5]))
    ELSE IF Len(funcnode.children) = 7
         THEN Value(FuncParts(funcnode.children[1], funcnode.children[2],
                              funcnode.children[3], None, funcnode.children[5],
                              funcnode.children[6], funcnode.children[7]))
         ELSE Raise("Exception")

\* A decomposition that returns what it has and lets the other children be.
parts_ignores_rest(funcnode) ==
    IF funcnode.children[4].type = "operator" /\ funcnode.children[4].value = ":"
    THEN Value(FuncParts(funcnode.children[1], funcnode.children[2],
                         funcnode.children[3], None, None,
                         funcnode.children[4], funcnode.children[5]))
    ELSE Value(FuncParts(funcnode.children[1], funcnode.children[2],
                         funcnode.children[3], funcnode.children[4],
                         funcnode.children[5], funcnode.children[6],
                         funcnode.children[7]))

\* _ParsedFuncNodes.parts: the signature by child position.
parts(funcnode) ==
    LET c == funcnode.children IN
    IF Len(c) < 4 THEN Raise("IndexError")
    ELSE LET arr_or_colon == c[4]
             children == SubSeq(c, 5, Len(c))
         IN IF arr_or_colon.type = "operator" /\ arr_or_colon.value = ":"
            THEN IF Len(children) < 1 THEN Raise("IndexError")
                 ELSE IF Len(children) > 1 THEN Raise("Exception")
                 ELSE Value(FuncParts(c[1], c[2], c[3], None, None,
                                      arr_or_colon, children[1]))
            ELSE IF Len(children) < 3 THEN Raise("IndexError")
                 ELSE IF Len(children) > 3 THEN Raise("Exception")
                 ELSE Value(FuncParts(c[1], c[2], c[3], arr_or_colon, children[1],
                                      children[2], children[3]))

\* The value the suite property builds once its leading scan has stopped.
suite_result(newlines, doc, children) ==
    Value(FuncSuiteParts(IF Len(newlines) > 0 THEN List(newlines) ELSE None,
                         doc,
                         IF Len(children) > 0 THEN List(children) ELSE None))

\* A scan that sets doc and leaves the docstring statement among the children.
RECURSIVE suite_scan_keeps_doc(_, _)
suite_scan_keeps_doc(children, newlines) ==
    IF Len(children) = 0 THEN suite_result(newlines, None, children)
    ELSE LET child == children[1] IN
         IF child.type = "newline"
         THEN suite_scan_keeps_doc(Tail(children), Append(newlines, child))
         ELSE IF child.type = "simple_stmt"
              THEN LET first_leaf == child.children[1] IN
                   IF first_leaf.type = "string"
                   THEN suite_result(newlines, child, children)
                   ELSE Diverges
              ELSE suite_result(newlines, None, children)

\* The leading scan `while True and len(children) > 0`.  An iteration on a
\* simple_stmt whose first child is not a string neither consumes the child
\* nor breaks: the next iteration starts from the same children, so the loop
\* repeats it for ever and the property never returns.
RECURSIVE suite_scan(_, _)
suite_scan(children, newlines) ==
    IF Len(children) = 0 THEN suite_result(newlines, None, children)
    ELSE LET child == children[1] IN
         IF child.type = "newline"
         THEN suite_scan(Tail(children), Append(newlines, child))
         ELSE IF child.type = "simple_stmt"
              THEN LET first_leaf == child.children[1] IN
                   IF first_leaf.type = "string"
                   THEN suite_result(newlines, child, Tail(children))
                   ELSE Diverges
              ELSE suite_result(newlines, None, children)

\* _ParsedFuncNodes.suite
suite(fparts) ==
    IF IsNone(fparts.suite)
    THEN Value(FuncSuiteParts(None, None, None))
    ELSE suite_scan(fparts.suite.children, <<>>)

\* A selection that keeps the order of FUNC_SIG_ATTRS whatever attrs' order.
mk_sig_nodes_field_order(fparts, attrs) ==
    LET names == IF IsNone(attrs) THEN FUNC_SIG_ATTRS
                 ELSE SelectSeq(FUNC_SIG_ATTRS,
                                LAMBDA a : \E i \in DOMAIN attrs.items : attrs.items[i] = a)
        got == [i \in 1..Len(names) |-> fparts[names[i]]]
    IN SelectSeq(got, LAMBDA x : ~IsNone(x))

\* _ParsedFuncNodes.mk_sig_nodes: the parts named by attrs, in the order of
\* attrs, without those that are None.
mk_sig_nodes(fparts, attrs) ==
    LET names == IF IsNone(attrs) THEN FUNC_SIG_ATTRS ELSE attrs.items
        got == [i \in 1..Len(names) |-> fparts[names[i]]]
    IN SelectSeq(got, LAMBDA x : ~IsNone(x))

\* A signature that leaves the suite's leading newlines out.
nodes_sig_without_newlines(fparts, fsuite) == mk_sig_nodes(fparts, None)

\* _ParsedFuncNodes.sig: the signature nodes and the suite's leading newlines.
nodes_sig(fparts, fsuite) ==
    mk_sig_nodes(fparts, None)
    \o (IF IsNone(fsuite.newlines) THEN <<>> ELSE fsuite.newlines.items)

\* _ParsedFuncNodes.doc, .body, .decor
nodes_doc(fsuite) == fsuite.doc
nodes_body(fsuite) == fsuite.body
nodes_decor(tree, funcnode) ==
    LET out == get_decorators(tree, funcnode)
    IN IF Len(out) > 0 THEN List(out) ELSE None

(***************************************************************************)
(* _ParsedFuncCodes: the text of each part, "" when the part is absent.    *)
(***************************************************************************)
\* The text of the first decorator alone.
codes_decor_first_only(nodes) == IF IsNone(nodes) THEN <<>> ELSE get_code(nodes.items[1])

codes_decor(nodes) == IF IsNone(nodes) THEN <<>> ELSE join_codes(nodes.items)
codes_sig(nodes) == join_codes(nodes)
codes_doc(node) == IF IsNone(node) THEN <<>> ELSE get_code(node)
codes_body(nodes) == IF IsNone(nodes) THEN <<>> ELSE join_codes(nodes.items)

(***************************************************************************)
(* Text helpers: str.splitlines, the leading spaces of a line.             *)
(***************************************************************************)
splitlines(text) ==
    LET RECURSIVE go(_, _)
        go(rest, line) ==
            IF rest = <<>> THEN (IF line = <<>> THEN <<>> ELSE <<line>>)
            ELSE IF Head(rest) = "\n" THEN <<line>> \o go(Tail(rest), <<>>)
            ELSE go(Tail(rest), Append(line, Head(rest)))
    IN go(text, <<>>)

RECURSIVE leading_spaces(_)
leading_spaces(line) ==
    IF line # <<>> /\ Head(line) = " " THEN 1 + leading_spaces(Tail(line)) ELSE 0

\* ParsedFuncCode.indent_size: the leading spaces of the first line of the
\* signature that starts with `def`; 0 when there is none.
indent_size(sig) ==
    LET lines == splitlines(sig)
        isdef(line) == LET n == leading_spaces(line)
                       IN Len(line) > n /\ line[n + 1] = "def"
        hits == SelectSeq(lines, isdef)
    IN IF hits = <<>> THEN 0 ELSE leading_spaces(hits[1])

\* dedent_by(text, n): n leading spaces taken off every line (off a line
\* with fewer, the spaces it has).
dedent_by(text, n) ==
    LET RECURSIVE go(_, _)
        go(rest, left) ==
            IF rest = <<>> THEN <<>>
            ELSE IF Head(rest) = "\n" THEN <<"\n">> \o go(Tail(rest), n)
            ELSE IF Head(rest) = " " /\ left > 0 THEN go(Tail(rest), left - 1)
            ELSE <<Head(rest)>> \o go(Tail(rest), 0)
    IN go(text, n)

(***************************************************************************)
(* ParsedFuncCode / ParsedFunc.  An instance holds its attributes and the  *)
(* values its cached properties have stored so far.  A property evaluates  *)
(* the properties it reads first; each stores its value when it returns    *)
(* one, and stores nothing when it raises or does not return.              *)
(***************************************************************************)
Int(n) == [py |-> "int", n |-> n]

ParsedFuncNtup(decor, sig, doc, body) ==
    [py |-> "ParsedFuncNtup", decor |-> decor, sig |-> sig, doc |-> doc, body |-> body]

NtupFields == <<"decor", "sig", "doc", "body">>

NoCodes == [decor |-> Unset, sig |-> Unset, doc |-> Unset, body |-> Unset]

\* The object before __init__ has run.
NewParsedFunc ==
    [state |-> "new",
     obj |-> Unset, name |-> Unset, src |-> Unset,
     tree |-> Unset, func |-> Unset, parts |-> Unset, suite |-> Unset,
     codes |-> NoCodes, indent_size |-> Unset]

\* A constructor whose first test is the one its message describes (both
\* None) and which has no test for both given.
ParsedFunc_init_both_none(p, obj, name, src) ==
    IF IsNone(obj) /\ IsNone(src)
    THEN [p |-> [p EXCEPT !.state = "raised"], r |-> Raise("ValueError")]
    ELSE IF ~IsNone(obj)
    THEN [p |-> [p EXCEPT !.state = "ready", !.obj = obj,
                          !.name = Str(obj.name), !.src = Str(obj.source)],
          r |-> Value(None)]
    ELSE IF IsNone(name)
    THEN [p |-> [p EXCEPT !.state = "raised"], r |-> Raise("ValueError")]
    ELSE [p |-> [p EXCEPT !.state = "ready", !.obj = None, !.name = name, !.src = src],
          r |-> Value(None)]

\* ParsedFunc.__init__ followed by _BaseParsedCode.__init__.
ParsedFunc_init(p, obj, name, src) ==
    IF ~IsNone(obj) /\ ~IsNone(src)
    THEN [p |-> [p EXCEPT !.state = "raised"], r |-> Raise("ValueError")]
    ELSE IF ~IsNone(obj) /\ ~IsNone(src)
    THEN [p |-> [p EXCEPT !.state = "raised"], r |-> Raise("ValueError")]
    ELSE IF ~IsNone(obj)
    THEN [p |-> [p EXCEPT !.state = "ready", !.obj = obj,
                          !.name = Str(obj.name), !.src = Str(obj.source)],
          r |-> Value(None)]
    ELSE IF IsNone(name)
    THEN [p |-> [p EXCEPT !.state = "raised"], r |-> Raise("ValueError")]
    ELSE [p |-> [p EXCEPT !.state = "ready", !.obj = None, !.name = name, !.src = src],
          r |-> Value(None)]

\* A property that finds its value stored.
Hit(p, v) == [p |-> p, r |-> Value(v)]

\* A property that has read the value `a` returned and computed the outcome
\* `o` from it: a value is stored under `field`; a failure of `a` is passed
\* on without computing anything, a failure `o` is passed on, nothing stored.
Then(a, field, o) ==
    IF a.r.kind # "value" THEN a
    ELSE [p |-> IF o.kind = "value" THEN [a.p EXCEPT ![field] = o.val] ELSE a.p,
          r |-> o]

\* parso.parse of a source: a source kept as the statements it is made of,
\* next to its text, is parsed as those statements.
parse_src(src) ==
    IF "forest" \in DOMAIN src THEN MkModule(src.forest_stmts) ELSE parse(src.s)

\* _BaseParsedCode.tree: parso.parse(self.src); parso raises TypeError when
\* it is given neither code nor a path.
tree(p) ==
    IF IsSet(p.tree) THEN Hit(p, p.tree)
    ELSE IF IsNone(p.src) THEN [p |-> p, r |-> Raise("TypeError")]
    ELSE [p |-> [p EXCEPT !.tree = parse_src(p.src)], r |-> Value(parse_src(p.src))]

\* A search written as next(generator, None): an exhausted generator gives
\* None, which the isinstance test then rejects with TypeError.
find_func_default_none(t, name) ==
    LET found == SelectSeq(iter_funcdefs(t),
                           LAMBDA node : ~IsNone(name) /\ node.children[2].value = name.s)
    IN IF found = <<>> THEN Raise("TypeError")
       ELSE IF found[1].type # "funcdef" THEN Raise("TypeError")
       ELSE Value(found[1])

\* The first top-level function of that name; next() of an exhausted
\* generator raises StopIteration.
find_func(t, name) ==
    LET found == SelectSeq(iter_funcdefs(t),
                           LAMBDA node : ~IsNone(name) /\ node.children[2].value = name.s)
    IN IF found = <<>> THEN Raise("StopIteration")
       ELSE IF found[1].type # "funcdef" THEN Raise("TypeError")
       ELSE Value(found[1])

\* ParsedFuncCode.func
func(p) ==
    IF IsSet(p.func) THEN Hit(p, p.func)
    ELSE Then(tree(p), "func", find_func(tree(p).r.val, p.name))

\* ParsedFuncCode.nodes.parts
nodes_parts(p) ==
    IF IsSet(p.parts) THEN Hit(p, p.parts)
    ELSE Then(func(p), "parts", parts(func(p).r.val))

\* ParsedFuncCode.nodes.suite
nodes_suite(p) ==
    IF IsSet(p.suite) THEN Hit(p, p.suite)
    ELSE Then(nodes_parts(p), "suite", suite(nodes_parts(p).r.val))

\* Storing the text of one part in the codes object.
StoreCode(a, attr, text) ==
    IF a.r.kind # "value" THEN a
    ELSE [p |-> [a.p EXCEPT !.codes[attr] = Str(text)], r |-> Value(Str(text))]

\* codes.decor from the function node, codes.sig / doc / body from the
\* suite parts (the signature reads parts, which suite has stored by then).
DecorFrom(a) ==
    StoreCode(a, "decor", codes_decor(nodes_decor(a.p.tree, a.r.val)))
SigFrom(a) ==
    StoreCode(a, "sig", codes_sig(nodes_sig(a.p.parts, a.r.val)))
DocFrom(a) ==
    StoreCode(a, "doc", codes_doc(nodes_doc(a.r.val)))
BodyFrom(a) ==
    StoreCode(a, "body", codes_body(nodes_body(a.r.val)))

\* ParsedFuncCode.codes.<attr>
codes(p, attr) ==
    IF IsSet(p.codes[attr]) THEN Hit(p, p.codes[attr])
    ELSE CASE attr = "decor" -> DecorFrom(func(p))
           [] attr = "sig" -> SigFrom(nodes_suite(p))
           [] attr = "doc" -> DocFrom(nodes_suite(p))
           [] attr = "body" -> BodyFrom(nodes_suite(p))

\* ParsedFuncCode.indent_size (a cached property over codes.sig)
get_indent_size(p) ==
    IF IsSet(p.indent_size) THEN Hit(p, p.indent_size)
    ELSE Then(codes(p, "sig"), "indent_size",
              Value(Int(indent_size(codes(p, "sig").r.val.s))))

\* ParsedFuncCode.mk_sig(attrs)
SigText(a, attrs) ==
    IF a.r.kind # "value" THEN a
    ELSE [p |-> a.p, r |-> Value(Str(join_codes(mk_sig_nodes(a.r.val, attrs))))]

\* self.nodes is made from self.func; mk_sig_nodes reads self.parts once
\* for every name of attrs, so not at all for an empty list.
mk_sig(p, attrs) ==
    IF ~IsNone(attrs) /\ attrs.items = <<>>
    THEN IF func(p).r.kind # "value" THEN func(p)
         ELSE [p |-> func(p).p, r |-> Value(Str(<<>>))]
    ELSE SigText(nodes_parts(p), attrs)

\* One turn of as_ntup's loop over the fields: the text of the field,
\* dedented by indent_size when asked.
Dedented(c, i) ==
    IF i.r.kind # "value" THEN i
    ELSE [p |-> i.p, r |-> Value(Str(dedent_by(c.r.val.s, i.r.val.n)))]

FieldOf(c, dedent) ==
    IF c.r.kind # "value" \/ ~dedent THEN c ELSE Dedented(c, get_indent_size(c.p))

ntup_field(p, attr, dedent) == FieldOf(codes(p, attr), dedent)

\* as_ntup's loop `for attr in ParsedFuncNtup._fields`, filling kargs.
RECURSIVE ntup_loop(_, _, _, _)
NtupStep(f, fields, dedent, kargs) ==
    IF f.r.kind # "value" THEN f
    ELSE ntup_loop(f.p, Tail(fields), dedent, [kargs EXCEPT ![Head(fields)] = f.r.val])

ntup_loop(p, fields, dedent, kargs) ==
    IF fields = <<>> THEN [p |-> p, r |-> Value(kargs)]
    ELSE NtupStep(ntup_field(p, Head(fields), dedent), fields, dedent, kargs)

\* ParsedFuncCode.codes: the object made over self.nodes, which is made
\* from self.func; none of its texts is computed before it is read.
CodesObject == [py |-> "_ParsedFuncCodes"]

codes_object(p) ==
    IF func(p).r.kind # "value" THEN func(p)
    ELSE [p |-> func(p).p, r |-> Value(CodesObject)]

\* An as_ntup that keeps the doc it has rendered from the tree.
NtupFrom_keeps_rendered_doc(k, p, use_doc_attr) == k

\* ParsedFunc.as_ntup(dedent, use_doc_attr): after the loop, doc is replaced
\* by obj.__doc__ when use_doc_attr is True and the instance has an obj.
NtupFrom(k, p, use_doc_attr) ==
    IF k.r.kind # "value" THEN k
    ELSE [p |-> k.p,
          r |-> Value(IF use_doc_attr /\ ~IsNone(p.obj)
                      THEN [k.r.val EXCEPT !.doc = p.obj.doc]
                      ELSE k.r.val)]

as_ntup(p, dedent, use_doc_attr) ==
    NtupFrom(ntup_loop(p, NtupFields, dedent, ParsedFuncNtup(None, None, None, None)),
             p, use_doc_attr)

(***************************************************************************)
(* The calls made on a ParsedFunc.                                         *)
(***************************************************************************)
NoArgs ==
    [obj |-> None, name |-> None, src |-> None,
     dedent |-> FALSE, use_doc_attr |-> FALSE, attrs |-> None]

Call(op, args, out) == [op |-> op, args |-> args, out |-> out]

NoModuleDefs == [state |-> "none"]
NoConfig == [state |-> "none"]
NoFiles == [state |-> "none"]
NoScan == [pc |-> "none"]

\* The effect of a call: the instance as the call left it, and the outcome.
\* A call that does not return leaves the program inside it.
Returns(op, args, o) ==
    /\ pf' = IF o.r.kind = "diverges" THEN [o.p EXCEPT !.state = "hung"] ELSE o.p
    /\ ret' = Call(op, args, o.r)
    /\ UNCHANGED <<md, cfg, fs, scan>>

\* The arguments ParsedFunc is constructed with: a function object or not, a
\* name or not, a source text or not.
ArgNames == {None, Str("f"), Str("g")}

ConstructOf(shapes) ==
    /\ pf.state = "new"
    /\ \E shape \in shapes, use_obj \in BOOLEAN, use_src \in BOOLEAN,
          name \in ArgNames :
           LET obj == IF use_obj THEN Callable("f", shape) ELSE None
               src == IF use_src THEN Str(get_code(FuncModule("f", shape))) ELSE None
           IN Returns("__init__",
                      [NoArgs EXCEPT !.obj = obj, !.name = name, !.src = src],
                      ParsedFunc_init(pf, obj, name, src))

Construct == ConstructOf(FuncShapes)

\* _BaseParsedCode.tree read on a ParsedFunc; GetModuleTree is the same
\* property read on a ModuleDefs.
GetTree ==
    /\ pf.state = "ready"
    /\ Returns("tree", NoArgs, tree(pf))

GetFunc ==
    /\ pf.state = "ready"
    /\ Returns("func", NoArgs, func(pf))

GetParts ==
    /\ pf.state = "ready"
    /\ Returns("parts", NoArgs, nodes_parts(pf))

GetSuite ==
    /\ pf.state = "ready"
    /\ Returns("suite", NoArgs, nodes_suite(pf))

GetCodes ==
    /\ pf.state = "ready"
    /\ Returns("codes", NoArgs, codes_object(pf))

GetIndentSize ==
    /\ pf.state = "ready"
    /\ Returns("indent_size", NoArgs, get_indent_size(pf))

AsNtup ==
    /\ pf.state = "ready"
    /\ \E dedent \in BOOLEAN, use_doc_attr \in BOOLEAN :
           Returns("as_ntup",
                   [NoArgs EXCEPT !.dedent = dedent, !.use_doc_attr = use_doc_attr],
                   as_ntup(pf, dedent, use_doc_attr))

GetDecor ==
    /\ pf.state = "ready"
    /\ Returns("codes.decor", NoArgs, codes(pf, "decor"))

GetSig ==
    /\ pf.state = "ready"
    /\ Returns("codes.sig", NoArgs, codes(pf, "sig"))

GetDoc ==
    /\ pf.state = "ready"
    /\ Returns("codes.doc", NoArgs, codes(pf, "doc"))

GetBody ==
    /\ pf.state = "ready"
    /\ Returns("codes.body", NoArgs, codes(pf, "body"))

Init ==
    /\ pf = NewParsedFunc
    /\ md = NoModuleDefs
    /\ cfg = NoConfig
    /\ fs = NoFiles
    /\ scan = NoScan
    /\ ret = Call("", NoArgs, NoCall)

Next ==
    \/ Construct
    \/ GetTree
    \/ GetFunc
    \/ GetParts
    \/ GetSuite
    \/ GetCodes
    \/ GetIndentSize
    \/ AsNtup

Spec == Init /\ [][Next]_vars

(***************************************************************************)
(* The codes view of a ParsedFunc: the object, and its four texts read one *)
(* by one, in any order and any number of times.                           *)
(***************************************************************************)
NextCodes ==
    \/ Construct
    \/ GetCodes
    \/ GetDecor
    \/ GetSig
    \/ GetDoc
    \/ GetBody

SpecCodes == Init /\ [][NextCodes]_vars

(***************************************************************************)
(* Custom signatures: mk_sig on functions with and without a return        *)
(* annotation, for every list of at most MaxAttrs names of FUNC_SIG_ATTRS. *)
(***************************************************************************)
\* Longest list of names given to mk_sig.
MaxAttrs == 2

SigNames == {FUNC_SIG_ATTRS[i] : i \in DOMAIN FUNC_SIG_ATTRS}

AttrLists ==
    {None} \cup {List(a) : a \in UNION {[1..n -> SigNames] : n \in 0..MaxAttrs}}

SigShapes == {s \in FuncShapes : s.block /\ s.stmts = <<"doc">> /\ s.ndecor = 0}

ConstructSig == ConstructOf(SigShapes)

MkSig ==
    /\ pf.state = "ready"
    /\ \E attrs \in AttrLists :
           Returns("mk_sig", [NoArgs EXCEPT !.attrs = attrs], mk_sig(pf, attrs))

NextSig ==
    \/ ConstructSig
    \/ MkSig

SpecSig == Init /\ [][NextSig]_vars

(***************************************************************************)
(* The modules handed to ModuleDefs.  A module's source is the forest of   *)
(* its statements: a function, a class (each with the statements of its    *)
(* block, `pass` when there is none), `import a`, or `a = 1`.              *)
(***************************************************************************)
DefLabels == {[kind |-> "def", name |-> "a"], [kind |-> "class", name |-> "b"]}
FlatLabels == {[kind |-> "import", name |-> "a"], [kind |-> "assign", name |-> "a"]}

Item(label, kids) == [kind |-> label.kind, name |-> label.name, kids |-> kids]

\* The sources of exactly n statements, nested ones counted.
RECURSIVE SourcesOf(_)
ItemsOf(k) ==
    (IF k = 1 THEN {Item(l, <<>>) : l \in FlatLabels} ELSE {})
    \cup {Item(l, f) : l \in DefLabels, f \in SourcesOf(k - 1)}

SourcesOf(n) ==
    IF n = 0 THEN {<<>>}
    ELSE UNION {{<<it>> \o rest : it \in ItemsOf(k), rest \in SourcesOf(n - k)} : k \in 1..n}

ModuleSources == UNION {SourcesOf(n) : n \in 0..MaxNodes}

\* The same sources over other flat statements.
RECURSIVE SourcesWith(_, _)
ItemsWith(k, flat) ==
    (IF k = 1 THEN {Item(l, <<>>) : l \in flat} ELSE {})
    \cup {Item(l, f) : l \in DefLabels, f \in SourcesWith(k - 1, flat)}

SourcesWith(n, flat) ==
    IF n = 0 THEN {<<>>}
    ELSE UNION {{<<it>> \o rest : it \in ItemsWith(k, flat), rest \in SourcesWith(n - k, flat)}
                : k \in 1..n}

\* One statement at the bottom of a chain of definitions, each the only
\* statement of the block of the one before.
RECURSIVE Nest(_, _)
Nest(path, inner) ==
    IF path = <<>> THEN <<inner>>
    ELSE <<Item(Head(path), Nest(Tail(path), inner))>>

DeepSources(flat) ==
    {Nest(path, Item(l, <<>>)) : path \in [1..MaxDepth -> DefLabels], l \in flat}

\* `import a`, `import a, b`, `import a as b`, and `import a` under an `if`.
ImportLabels ==
    {[kind |-> k, name |-> "a"] : k \in {"import", "import_two", "import_as", "if_import"}}

\* `a = 1`, `a, b = c`, `a.b = 1`, `a[0] = 1`, and `a = 1` under an `if`.
AssignLabels ==
    {[kind |-> k, name |-> "a"]
     : k \in {"assign", "assign_tuple", "assign_attr", "assign_item", "if_assign"}}

VarSources ==
    UNION {SourcesWith(n, AssignLabels) : n \in 0..MaxNodes} \cup DeepSources(AssignLabels)

ImportSources ==
    UNION {SourcesWith(n, ImportLabels) : n \in 0..MaxNodes} \cup DeepSources(ImportLabels)

\* Lines a statement takes: one, and for a definition those of its block.
RECURSIVE LinesOf(_)
ItemLines(it) ==
    IF it.kind \in {"def", "class", "if"}
    THEN 1 + (IF it.kids = <<>> THEN 1 ELSE LinesOf(it.kids))
    ELSE IF it.kind \in {"if_import", "if_assign"} THEN 2
    ELSE 1

LinesOf(f) == IF f = <<>> THEN 0 ELSE ItemLines(Head(f)) + LinesOf(Tail(f))

\* `import a`: simple_stmt [import_name [import, a], newline]
StmtImport(name, ind, ln) ==
    Node("simple_stmt",
         <<Node("import_name", <<Leaf("keyword", "import", ind, ln),
                                 Leaf("name", name, <<" ">>, ln)>>),
           Newline(ln)>>)

\* `a = 1`: simple_stmt [expr_stmt [a, =, 1], newline]
StmtAssign(name, ind, ln) ==
    Node("simple_stmt",
         <<Node("expr_stmt", <<Leaf("name", name, ind, ln),
                               Leaf("operator", "=", <<" ">>, ln),
                               Leaf("number", "1", <<" ">>, ln)>>),
           Newline(ln)>>)

\* `import a, b`: import_name [import, dotted_as_names [a, ",", b]]
StmtImportTwo(ind, ln) ==
    Node("simple_stmt",
         <<Node("import_name",
                <<Leaf("keyword", "import", ind, ln),
                  Node("dotted_as_names", <<Leaf("name", "a", <<" ">>, ln),
                                            Leaf("operator", ",", <<>>, ln),
                                            Leaf("name", "b", <<" ">>, ln)>>)>>),
           Newline(ln)>>)

\* `import a as b`: import_name [import, dotted_as_name [a, as, b]]
StmtImportAs(ind, ln) ==
    Node("simple_stmt",
         <<Node("import_name",
                <<Leaf("keyword", "import", ind, ln),
                  Node("dotted_as_name", <<Leaf("name", "a", <<" ">>, ln),
                                           Leaf("keyword", "as", <<" ">>, ln),
                                           Leaf("name", "b", <<" ">>, ln)>>)>>),
           Newline(ln)>>)

\* `a, b = c`: the target is a testlist_star_expr
StmtAssignTuple(ind, ln) ==
    Node("simple_stmt",
         <<Node("expr_stmt",
                <<Node("testlist_star_expr", <<Leaf("name", "a", ind, ln),
                                               Leaf("operator", ",", <<>>, ln),
                                               Leaf("name", "b", <<" ">>, ln)>>),
                  Leaf("operator", "=", <<" ">>, ln),
                  Leaf("name", "c", <<" ">>, ln)>>),
           Newline(ln)>>)

\* `a.b = 1`: the target is an atom_expr [a, trailer [., b]]
StmtAssignAttr(ind, ln) ==
    Node("simple_stmt",
         <<Node("expr_stmt",
                <<Node("atom_expr",
                       <<Leaf("name", "a", ind, ln),
                         Node("trailer", <<Leaf("operator", ".", <<>>, ln),
                                           Leaf("name", "b", <<>>, ln)>>)>>),
                  Leaf("operator", "=", <<" ">>, ln),
                  Leaf("number", "1", <<" ">>, ln)>>),
           Newline(ln)>>)

\* `a[0] = 1`: the target is an atom_expr [a, trailer [[, 0, ]]]
StmtAssignItem(ind, ln) ==
    Node("simple_stmt",
         <<Node("expr_stmt",
                <<Node("atom_expr",
                       <<Leaf("name", "a", ind, ln),
                         Node("trailer", <<Leaf("operator", "[", <<>>, ln),
                                           Leaf("number", "0", <<>>, ln),
                                           Leaf("operator", "]", <<>>, ln)>>)>>),
                  Leaf("operator", "=", <<" ">>, ln),
                  Leaf("number", "1", <<" ">>, ln)>>),
           Newline(ln)>>)

\* `if x:` over a one-statement block.
StmtIfOver(stmt, ind, ln) ==
    Node("if_stmt",
         <<Leaf("keyword", "if", ind, ln), Leaf("name", "x", <<" ">>, ln),
           Leaf("operator", ":", <<>>, ln),
           Node("suite", <<Newline(ln), stmt>>)>>)

\* What parso builds for the statements of a block at indentation `ind`
\* starting on line `ln`.
RECURSIVE BuildStmts(_, _, _)
BuildBlock(kids, ind, ln) ==
    Node("suite",
         <<Newline(ln)>>
         \o (IF kids = <<>> THEN <<StmtPass(ind \o <<" ">>, ln + 1)>>
             ELSE BuildStmts(kids, ind \o <<" ">>, ln + 1)))

BuildItem(it, ind, ln) ==
    CASE it.kind = "import" -> StmtImport(it.name, ind, ln)
      [] it.kind = "assign" -> StmtAssign(it.name, ind, ln)
      [] it.kind = "import_two" -> StmtImportTwo(ind, ln)
      [] it.kind = "import_as" -> StmtImportAs(ind, ln)
      [] it.kind = "if_import" ->
            StmtIfOver(StmtImport(it.name, ind \o <<" ">>, ln + 1), ind, ln)
      [] it.kind = "assign_tuple" -> StmtAssignTuple(ind, ln)
      [] it.kind = "assign_attr" -> StmtAssignAttr(ind, ln)
      [] it.kind = "assign_item" -> StmtAssignItem(ind, ln)
      [] it.kind = "if_assign" ->
            StmtIfOver(StmtAssign(it.name, ind \o <<" ">>, ln + 1), ind, ln)
      [] it.kind = "def" ->
            Node("funcdef",
                 <<Leaf("keyword", "def", ind, ln),
                   Leaf("name", it.name, <<" ">>, ln),
                   Node("parameters", <<Leaf("operator", "(", <<>>, ln),
                                        Leaf("operator", ")", <<>>, ln)>>),
                   Leaf("operator", ":", <<>>, ln),
                   BuildBlock(it.kids, ind, ln)>>)
      [] it.kind = "if" ->
            Node("if_stmt",
                 <<Leaf("keyword", "if", ind, ln),
                   Leaf("name", "x", <<" ">>, ln),
                   Leaf("operator", ":", <<>>, ln),
                   BuildBlock(it.kids, ind, ln)>>)
      [] it.kind = "class" ->
            Node("classdef",
                 <<Leaf("keyword", "class", ind, ln),
                   Leaf("name", it.name, <<" ">>, ln),
                   Leaf("operator", ":", <<>>, ln),
                   BuildBlock(it.kids, ind, ln)>>)

BuildStmts(f, ind, ln) ==
    IF f = <<>> THEN <<>>
    ELSE <<BuildItem(Head(f), ind, ln)>>
         \o BuildStmts(Tail(f), ind, ln + ItemLines(Head(f)))

\* parso.parse of a module's source.
parse_module(src) == MkModule(BuildStmts(src, <<>>, 1))

(***************************************************************************)
(* Python dicts: the items in insertion order.  str keys are text, so the  *)
(* key "a.b" is <<"a", ".", "b">> and "" is <<>>.                          *)
(***************************************************************************)
Dict(items) == [py |-> "dict", items |-> items]
EmptyDict == Dict(<<>>)

DictKeys(d) == {d.items[i][1] : i \in DOMAIN d.items}
DictHas(d, k) == k \in DictKeys(d)
DictGet(d, k) == d.items[CHOOSE i \in DOMAIN d.items : d.items[i][1] = k][2]

\* d[k] = v: a key already there keeps its place.
DictSet(d, k, v) ==
    IF DictHas(d, k)
    THEN Dict([i \in DOMAIN d.items |->
                 IF d.items[i][1] = k THEN <<k, v>> ELSE d.items[i]])
    ELSE Dict(Append(d.items, <<k, v>>))

\* a | b: a new dict with a's items, then b's, b's values winning.
RECURSIVE DictUpdate(_, _)
DictUpdate(d, items) ==
    IF items = <<>> THEN d
    ELSE DictUpdate(DictSet(d, Head(items)[1], Head(items)[2]), Tail(items))

DictOr(a, b) == DictUpdate(a, b.items)

\* The order of str: by character, '.' before the letters.
Rank(c) == CASE c = "." -> 46 [] c = "a" -> 97 [] c = "b" -> 98 [] c = "m" -> 109

RECURSIVE StrLess(_, _)
StrLess(x, y) ==
    IF y = <<>> THEN FALSE
    ELSE IF x = <<>> THEN TRUE
    ELSE IF Head(x) = Head(y) THEN StrLess(Tail(x), Tail(y))
    ELSE Rank(Head(x)) < Rank(Head(y))

\* {x: out[x] for x in sorted(out)}
RECURSIVE DictSorted(_)
DictSorted(d) ==
    IF d.items = <<>> THEN d
    ELSE LET least == CHOOSE i \in DOMAIN d.items :
                          \A j \in DOMAIN d.items :
                              j = i \/ StrLess(d.items[i][1], d.items[j][1])
             rest == SelectSeq(d.items, LAMBDA it : it[1] # d.items[least][1])
         IN Dict(<<d.items[least]>> \o DictSorted(Dict(rest)).items)

(***************************************************************************)
(* ModuleDefs.                                                             *)
(***************************************************************************)
\* key = f"{prefix}.{name}" if prefix else name
DottedKey(prefix, name) ==
    IF prefix # <<>> THEN prefix \o <<".">> \o <<name>> ELSE <<name>>

\* ModuleDefs.get_cls_or_func: every definition in the node's scope is stored
\* under prefix.name, and its own scope is indexed with its name as prefix.
RECURSIVE get_cls_or_func(_, _, _), cls_or_func_loop(_, _, _)
cls_or_func_loop(found, base, prefix) ==
    IF found = <<>> THEN base
    ELSE cls_or_func_loop(
             Tail(found),
             get_cls_or_func(Head(found),
                             DictSet(base,
                                     DottedKey(prefix, Head(found).children[2].value),
                                     Head(found)),
                             <<Head(found).children[2].value>>),
             prefix)

get_cls_or_func(node, base, prefix) ==
    cls_or_func_loop(scan_scope(node.children, {"funcdef", "classdef"}), base, prefix)

\* ImportName.get_defined_names(): of every name imported, its alias or,
\* without one, the first name of its path.
get_defined_names(import) ==
    LET what == import.children[2]
        as_names == IF what.type = "dotted_as_names"
                    THEN [i \in 1..((Len(what.children) + 1) \div 2) |->
                             what.children[2 * i - 1]]
                    ELSE <<what>>
    IN [i \in DOMAIN as_names |->
           IF as_names[i].type = "dotted_as_name"
           THEN as_names[i].children[3]
           ELSE IF as_names[i].type = "name" THEN as_names[i]
           ELSE as_names[i].children[1]]

\* ModuleDefs.get_imports
RECURSIVE imports_loop(_, _, _)
imports_loop(found, base, prefix) ==
    IF found = <<>> THEN base
    ELSE imports_loop(
             Tail(found),
             DictUpdate(base,
                        [i \in DOMAIN get_defined_names(Head(found)) |->
                            <<DottedKey(prefix, get_defined_names(Head(found))[i].value),
                              Head(found)>>]),
             prefix)

get_imports(node, base, prefix) ==
    imports_loop(scan_scope(node.children, {"import_name", "import_from"}), base, prefix)

\* ModuleDefs.get_variables: the node's own children that are simple
\* statements holding an assignment to a bare name.
RECURSIVE variables_loop(_, _, _)
variables_loop(children, base, prefix) ==
    IF children = <<>> THEN base
    ELSE variables_loop(
             Tail(children),
             IF /\ Head(children).type = "simple_stmt"
                /\ Head(children).children[1].type = "expr_stmt"
                /\ Head(children).children[1].children[1].type = "name"
             THEN DictSet(base,
                          DottedKey(prefix, Head(children).children[1].children[1].value),
                          Head(children))
             ELSE base,
             prefix)

get_variables(node, base, prefix) == variables_loop(node.children, base, prefix)

\* The loop of imports over the definitions indexed:
\* out = out | self.get_imports(node=node, base=out, prefix=pfix), where the
\* call has already written into out.
RECURSIVE imports_over(_, _)
imports_over(items, out) ==
    IF items = <<>> THEN out
    ELSE imports_over(Tail(items),
                      DictOr(get_imports(Head(items)[2], out, Head(items)[1]),
                             get_imports(Head(items)[2], out, Head(items)[1])))

\* The same loop of variables, over the suites of the definitions indexed.
RECURSIVE variables_over(_, _)
variables_over(items, out) ==
    IF items = <<>> THEN out
    ELSE variables_over(Tail(items),
                        DictOr(get_variables(Head(items)[2], out, Head(items)[1]),
                               get_variables(Head(items)[2], out, Head(items)[1])))

\* The bodies of the cached properties, given what they read.
cls_or_func_defs_of(root, mod_prefix) ==
    DictSorted(get_cls_or_func(root, EmptyDict, mod_prefix))

cls_or_func_suites_of(cfdefs) ==
    DictSorted(Dict([i \in DOMAIN cfdefs.items |->
                       <<cfdefs.items[i][1],
                         cfdefs.items[i][2].children[Len(cfdefs.items[i][2].children)]>>]))

imports_of(root, mod_prefix, cfdefs) ==
    DictSorted(imports_over(cfdefs.items, get_imports(root, EmptyDict, mod_prefix)))

variables_of(root, mod_prefix, cfsuites) ==
    DictSorted(variables_over(cfsuites.items, get_variables(root, EmptyDict, mod_prefix)))

\* A merge in which the first category wins.
defs_of_first_wins(cfdefs, imps, vs) ==
    DictSorted(DictOr(DictOr(vs, imps), cfdefs))

defs_of(cfdefs, imps, vs) ==
    DictSorted(DictOr(DictOr(cfdefs, imps), vs))

\* The instance before __init__ has run, and after.
NewModuleDefs(name, src, add_mod_prefix) ==
    [state |-> "ready", name |-> name, src |-> src,
     mod_prefix |-> IF add_mod_prefix THEN name ELSE <<>>,
     tree |-> Unset, cls_or_func_defs |-> Unset, cls_or_func_suites |-> Unset,
     imports |-> Unset, variables |-> Unset, defs |-> Unset]

\* cached_property: the value stored, or the one computed, which is stored.
Cached(m, field, a, v) ==
    IF IsSet(m[field]) THEN [m |-> m, v |-> m[field]]
    ELSE [m |-> [a EXCEPT ![field] = v], v |-> v]

md_tree(m) == Cached(m, "tree", m, parse_module(m.src))

DefsWith(m, a) ==
    Cached(m, "cls_or_func_defs", a.m, cls_or_func_defs_of(a.v, a.m.mod_prefix))
cls_or_func_defs(m) ==
    IF IsSet(m.cls_or_func_defs) THEN [m |-> m, v |-> m.cls_or_func_defs]
    ELSE DefsWith(m, md_tree(m))

SuitesWith(m, a) ==
    Cached(m, "cls_or_func_suites", a.m, cls_or_func_suites_of(a.v))
cls_or_func_suites(m) ==
    IF IsSet(m.cls_or_func_suites) THEN [m |-> m, v |-> m.cls_or_func_suites]
    ELSE SuitesWith(m, cls_or_func_defs(m))

\* An imports that passes the dictionary of cls_or_func_defs itself as base,
\* so that get_imports writes the imports into it.
ImportsWith_into_defs(m, t, a) ==
    [m |-> [a.m EXCEPT !.imports = imports_of(t.v, a.m.mod_prefix, a.v),
                       !.cls_or_func_defs =
                           DictSorted(DictOr(a.v, imports_of(t.v, a.m.mod_prefix, a.v)))],
     v |-> imports_of(t.v, a.m.mod_prefix, a.v)]

\* imports and variables read the tree, then the definitions or suites.
ImportsWith(m, t, a) ==
    Cached(m, "imports", a.m, imports_of(t.v, a.m.mod_prefix, a.v))
imports(m) ==
    IF IsSet(m.imports) THEN [m |-> m, v |-> m.imports]
    ELSE ImportsWith(m, md_tree(m), cls_or_func_defs(md_tree(m).m))

VariablesWith(m, t, a) ==
    Cached(m, "variables", a.m, variables_of(t.v, a.m.mod_prefix, a.v))
variables(m) ==
    IF IsSet(m.variables) THEN [m |-> m, v |-> m.variables]
    ELSE VariablesWith(m, md_tree(m), cls_or_func_suites(md_tree(m).m))

DefsAll(m, d, i, v) ==
    Cached(m, "defs", v.m, defs_of(d.v, i.v, v.v))
defs(m) ==
    IF IsSet(m.defs) THEN [m |-> m, v |-> m.defs]
    ELSE DefsAll(m, cls_or_func_defs(m),
                 imports(cls_or_func_defs(m).m),
                 variables(imports(cls_or_func_defs(m).m).m))

(***************************************************************************)
(* Reading a module's index.                                               *)
(***************************************************************************)
ModReturns(op, a) ==
    /\ md' = a.m
    /\ ret' = Call(op, NoArgs, Value(a.v))
    /\ UNCHANGED <<pf, cfg, fs, scan>>

LoadOf(sources) ==
    /\ md.state = "none"
    /\ \E src \in sources, add_mod_prefix \in BOOLEAN :
           /\ md' = NewModuleDefs(<<"m">>, src, add_mod_prefix)
           /\ ret' = Call("ModuleDefs", NoArgs, Value(None))
           /\ UNCHANGED <<pf, cfg, fs, scan>>

Load == LoadOf(ModuleSources)

\* The tree property ModuleDefs inherits from _BaseParsedCode: the parse
\* tree of the module's source, stored on the instance at the first read.
GetModuleTree == md.state = "ready" /\ ModReturns("tree", md_tree(md))

GetClsOrFuncDefs == md.state = "ready" /\ ModReturns("cls_or_func_defs", cls_or_func_defs(md))
GetClsOrFuncSuites == md.state = "ready" /\ ModReturns("cls_or_func_suites", cls_or_func_suites(md))
GetImports == md.state = "ready" /\ ModReturns("imports", imports(md))
GetVariables == md.state = "ready" /\ ModReturns("variables", variables(md))
GetDefs == md.state = "ready" /\ ModReturns("defs", defs(md))

NextMod ==
    \/ Load
    \/ GetModuleTree
    \/ GetClsOrFuncDefs
    \/ GetClsOrFuncSuites
    \/ GetImports
    \/ GetVariables
    \/ GetDefs

SpecMod == Init /\ [][NextMod]_vars

(***************************************************************************)
(* ParsedFunc over functions of a module, methods and nested functions,    *)
(* read through codes.decor and as_ntup.                                   *)
(***************************************************************************)
ConstructView == ConstructOf(IndentedShapes)

NextView ==
    \/ ConstructView
    \/ GetDecor
    \/ AsNtup

SpecView == Init /\ [][NextView]_vars

(***************************************************************************)
(* ParsedFunc over the functions, methods and nested functions above and  *)
(* over sources with comments and blank lines around the decorators of     *)
(* the function and an earlier function before it, read through            *)
(* codes.decor.                                                            *)
(***************************************************************************)
ConstructDecor ==
    /\ pf.state = "new"
    /\ \E d \in DecorShapes, name \in {Str("f"), Str("g")} :
           LET src == Str(get_code(DecorModule("f", d)))
           IN Returns("__init__", [NoArgs EXCEPT !.name = name, !.src = src],
                      ParsedFunc_init(pf, None, name, src))

NextDecor ==
    \/ ConstructView
    \/ ConstructDecor
    \/ GetDecor

SpecDecor == Init /\ [][NextDecor]_vars

(***************************************************************************)
(* One instance, a ParsedFunc or a ModuleDefs, and every accessor of it    *)
(* read any number of times in any order.                                  *)
(***************************************************************************)
\* Functions of at most two statements under at most one decorator.
CacheShapes == {s \in FuncShapes : ~s.ann /\ s.ndecor <= 1 /\ Len(s.stmts) <= 2}
CacheSources == UNION {SourcesOf(n) : n \in 0..(MaxNodes - 1)}

ConstructOne == md.state = "none" /\ ConstructOf(CacheShapes)
LoadOne == pf.state = "new" /\ LoadOf(CacheSources)

NextCache ==
    \/ ConstructOne
    \/ LoadOne
    \/ GetTree
    \/ GetFunc
    \/ GetParts
    \/ GetSuite
    \/ GetCodes
    \/ GetDecor
    \/ GetSig
    \/ GetDoc
    \/ GetBody
    \/ GetIndentSize
    \/ AsNtup
    \/ GetModuleTree
    \/ GetClsOrFuncDefs
    \/ GetClsOrFuncSuites
    \/ GetImports
    \/ GetVariables
    \/ GetDefs

SpecCache == Init /\ [][NextCache]_vars

(***************************************************************************)
(* ModuleDefs over modules of import statements, read through imports.     *)
(***************************************************************************)
LoadImp == LoadOf(ImportSources)

NextImp ==
    \/ LoadImp
    \/ GetClsOrFuncDefs
    \/ GetImports

SpecImp == Init /\ [][NextImp]_vars

(***************************************************************************)
(* ModuleDefs over modules of assignments, read through variables.         *)
(***************************************************************************)
LoadVar == LoadOf(VarSources)

NextVar ==
    \/ LoadVar
    \/ GetClsOrFuncSuites
    \/ GetVariables

SpecVar == Init /\ [][NextVar]_vars

(***************************************************************************)
(* BaseConfig (core/structs.py): a pydantic model with in-place and        *)
(* copying recursive updates and `with` blocks that undo the in-place      *)
(* updates made in them.  The instance modelled is an Options holding a    *)
(* nested PP.  The model validates assignments and is strict: a value of   *)
(* another type than the field's is refused; a dict given for a field      *)
(* that holds a model is validated into a new instance of that model.      *)
(* _parse_validation_error turns these refusals into Exception.            *)
(***************************************************************************)
\* Most keys of one updates dict, and deepest nesting of `with` blocks.
MaxKeys == 2
MaxContexts == 1

Bool(b) == [py |-> "bool", b |-> b]

model_fields(cls) ==
    IF cls = "Options" THEN <<"debug", "pp">> ELSE <<"color", "width">>

FieldType(cls, name) ==
    CASE name = "debug" -> "bool"
      [] name = "pp" -> "PP"
      [] name = "color" -> "str"
      [] name = "width" -> "int"

HasField(cls, name) == \E i \in DOMAIN model_fields(cls) : model_fields(cls)[i] = name

\* An instance as constructed: its fields, the order its __dict__ holds
\* them in, and its two private attributes.  An instance may lose a field
\* (delattr); fields then is defined on the names that are left.
BaseModel(cls, fields) ==
    [py |-> "model", cls |-> cls, fields |-> fields, order |-> model_fields(cls),
     _context_depth |-> 0, _backup_stack |-> <<>>]

IsModel(v) == v.py = "model"
IsDict(v) == v.py = "dict"

\* hasattr(current, a) for the name of a field or of none.
hasattr(current, a) == IsModel(current) /\ a \in DOMAIN current.fields

\* model_dump(): the fields the instance has, in the order of its
\* __dict__, nested models dumped to dicts.
RECURSIVE model_dump(_)
model_dump(m) ==
    Dict([i \in DOMAIN m.order |->
            <<m.order[i],
              IF IsModel(m.fields[m.order[i]])
              THEN model_dump(m.fields[m.order[i]])
              ELSE m.fields[m.order[i]]>>])

\* Validation of a value for a field, and cls(**d), which forbids extra
\* keys, requires every field and validates each.
RECURSIVE validate_value(_, _), validate_model(_, _)
validate_model(cls, d) ==
    IF \E k \in DictKeys(d) : ~HasField(cls, k) THEN Raise("Exception")
    ELSE IF \E i \in DOMAIN model_fields(cls) : ~DictHas(d, model_fields(cls)[i])
    THEN Raise("Exception")
    ELSE IF \E i \in DOMAIN model_fields(cls) :
               validate_value(FieldType(cls, model_fields(cls)[i]),
                              DictGet(d, model_fields(cls)[i])).kind # "value"
    THEN Raise("Exception")
    ELSE Value(BaseModel(cls,
                         [n \in {model_fields(cls)[i] : i \in DOMAIN model_fields(cls)} |->
                             validate_value(FieldType(cls, n), DictGet(d, n)).val]))

validate_value(typ, v) ==
    IF typ \in {"bool", "str", "int"}
    THEN IF v.py = typ THEN Value(v) ELSE Raise("Exception")
    ELSE IF IsModel(v) THEN (IF v.cls = typ THEN Value(v) ELSE Raise("Exception"))
    ELSE IF IsDict(v) THEN validate_model(typ, v)
    ELSE Raise("Exception")

\* _BaseModel.__setattr__ under validate_assignment; a field the instance
\* has lost comes back after the fields it has.
setattr_checked(m, name, o) ==
    IF o.kind # "value" THEN [m |-> m, r |-> o]
    ELSE IF name \in DOMAIN m.fields
    THEN [m |-> [m EXCEPT !.fields[name] = o.val], r |-> Value(None)]
    ELSE [m |-> [m EXCEPT !.fields = [n \in DOMAIN m.fields \cup {name} |->
                                        IF n = name THEN o.val ELSE m.fields[n]],
                          !.order = Append(@, name)],
          r |-> Value(None)]

setattr(m, name, value) ==
    setattr_checked(m, name, validate_value(FieldType(m.cls, name), value))

\* _validate_model_updates: a dict, of field names only, at every level;
\* getattr of a field the instance has lost raises AttributeError.
RECURSIVE _validate_model_updates(_, _), validate_nested(_, _)
validate_nested_step(model, items, o) ==
    IF o.kind # "value" THEN o ELSE validate_nested(model, Tail(items))

validate_nested(model, items) ==
    IF items = <<>> THEN Value(None)
    ELSE IF ~hasattr(model, Head(items)[1]) THEN Raise("AttributeError")
    ELSE validate_nested_step(
             model, items,
             IF IsModel(model.fields[Head(items)[1]]) /\ IsDict(Head(items)[2])
             THEN _validate_model_updates(model.fields[Head(items)[1]], Head(items)[2])
             ELSE Value(None))

_validate_model_updates(model, updates) ==
    IF ~IsDict(updates) THEN Raise("TypeError")
    ELSE IF \E k \in DictKeys(updates) : ~HasField(model.cls, k) THEN Raise("ValueError")
    ELSE validate_nested(model, updates.items)

\* A copy that applies the updates of the top level only.
RECURSIVE copy_top_only(_, _)
copy_top_only(d, items) ==
    IF items = <<>> THEN d
    ELSE copy_top_only(IF IsDict(Head(items)[2]) THEN d
                       ELSE DictSet(d, Head(items)[1], Head(items)[2]),
                       Tail(items))

_update_model_copy_top_only(model, updates, validate_updates) ==
    validate_model(model.cls, copy_top_only(model_dump(model), updates.items))

\* _update_model_copy: the dump of the model with the updates written into
\* it, nested models copied the same way, validated into a new instance.
RECURSIVE _update_model_copy(_, _, _), copy_loop(_, _, _)
copy_nested(model, items, d, sub) ==
    IF sub.kind # "value" THEN sub
    ELSE copy_loop(model, Tail(items), DictSet(d, Head(items)[1], sub.val))

copy_loop(model, items, d) ==
    IF items = <<>> THEN Value(d)
    ELSE IF ~hasattr(model, Head(items)[1]) THEN Raise("AttributeError")
    ELSE IF IsModel(model.fields[Head(items)[1]]) /\ IsDict(Head(items)[2])
    THEN copy_nested(model, items, d,
                     _update_model_copy(model.fields[Head(items)[1]], Head(items)[2], FALSE))
    ELSE copy_loop(model, Tail(items), DictSet(d, Head(items)[1], Head(items)[2]))

copy_built(model, d) ==
    IF d.kind # "value" THEN d ELSE validate_model(model.cls, d.val)

copy_checked(model, updates, check) ==
    IF check.kind # "value" THEN check
    ELSE copy_built(model, copy_loop(model, updates.items, model_dump(model)))

_update_model_copy(model, updates, validate_updates) ==
    copy_checked(model, updates,
                 IF validate_updates THEN _validate_model_updates(model, updates)
                 ELSE Value(None))

\* A backup taken at every update made inside a block.
BackUp_every_update(self) ==
    IF self._context_depth > 0
    THEN [self EXCEPT !._backup_stack = Append(@, model_dump(self))]
    ELSE self

\* The backup _update takes inside a block: the dump of a deep copy of the
\* instance, when the stack holds fewer backups than blocks are open.
BackUp(self) ==
    IF self._context_depth > 0 /\ Len(self._backup_stack) < self._context_depth
    THEN [self EXCEPT !._backup_stack = Append(@, model_dump(self))]
    ELSE self

\* BaseConfig._update(updates, copy, validate_updates)
RECURSIVE _update(_, _, _, _), update_loop(_, _)
update_nested(self, items, sub) ==
    IF sub.r.kind # "value"
    THEN [m |-> [self EXCEPT !.fields[Head(items)[1]] = sub.m], r |-> sub.r]
    ELSE update_loop([self EXCEPT !.fields[Head(items)[1]] = sub.m], Tail(items))

update_set(items, s) ==
    IF s.r.kind # "value" THEN s ELSE update_loop(s.m, Tail(items))

update_loop(self, items) ==
    IF items = <<>> THEN [m |-> self, r |-> Value(None)]
    ELSE IF ~hasattr(self, Head(items)[1]) THEN [m |-> self, r |-> Raise("AttributeError")]
    ELSE IF IsModel(self.fields[Head(items)[1]]) /\ IsDict(Head(items)[2])
    THEN update_nested(self, items,
                       _update(self.fields[Head(items)[1]], Head(items)[2], FALSE, FALSE))
    ELSE update_set(items, setattr(self, Head(items)[1], Head(items)[2]))

\* An update that takes its backup before the keys are looked at.
update_checked_backs_up_first(self, updates, copy, check) ==
    IF check.kind # "value" THEN [m |-> BackUp(self), r |-> check]
    ELSE IF copy THEN [m |-> self, r |-> _update_model_copy(self, updates, FALSE)]
    ELSE update_loop(BackUp(self), updates.items)

update_checked(self, updates, copy, check) ==
    IF check.kind # "value" THEN [m |-> self, r |-> check]
    ELSE IF copy THEN [m |-> self, r |-> _update_model_copy(self, updates, FALSE)]
    ELSE update_loop(BackUp(self), updates.items)

_update(self, updates, copy, validate_updates) ==
    update_checked(self, updates, copy,
                   IF validate_updates THEN _validate_model_updates(self, updates)
                   ELSE Value(None))

\* What a method that ends with `return self` returns: the instance it was
\* called on, not a copy of it.
Self == [py |-> "self"]

\* BaseConfig.__enter__
__enter__(self) ==
    [m |-> [self EXCEPT !._context_depth = @ + 1], r |-> Value(Self)]

\* BaseConfig.__exit__: the last backup, if there is one, is popped and
\* every field set to what it holds.
RECURSIVE restore_loop(_, _)
restore_set(items, s) ==
    IF s.r.kind # "value" THEN s ELSE restore_loop(s.m, Tail(items))

restore_loop(self, items) ==
    IF items = <<>> THEN [m |-> self, r |-> Value(None)]
    ELSE restore_set(items, setattr(self, Head(items)[1], Head(items)[2]))

exit_restored(done) ==
    IF done.r.kind # "value" THEN done
    ELSE [m |-> [done.m EXCEPT !._context_depth = @ - 1], r |-> Value(None)]

\* An __exit__ that restores the last backup and leaves it on the stack.
__exit___leaves_backup(self) ==
    IF self._context_depth = 0 THEN [m |-> self, r |-> Raise("RuntimeError")]
    ELSE IF self._backup_stack # <<>>
    THEN exit_restored(
             restore_loop(self, self._backup_stack[Len(self._backup_stack)].items))
    ELSE [m |-> [self EXCEPT !._context_depth = @ - 1], r |-> Value(None)]

__exit__(self) ==
    IF self._context_depth = 0 THEN [m |-> self, r |-> Raise("RuntimeError")]
    ELSE IF self._backup_stack # <<>>
    THEN exit_restored(
             restore_loop([self EXCEPT !._backup_stack = SubSeq(@, 1, Len(@) - 1)],
                          self._backup_stack[Len(self._backup_stack)].items))
    ELSE [m |-> [self EXCEPT !._context_depth = @ - 1], r |-> Value(None)]

\* attr.split("."), the text of attr given name by name with the dots
\* between the names.
RECURSIVE dot_split_from(_, _)
dot_split_from(attr, word) ==
    IF attr = <<>> THEN <<word>>
    ELSE IF Head(attr) = "." THEN <<word>> \o dot_split_from(Tail(attr), "")
    ELSE dot_split_from(Tail(attr), Head(attr))

dot_split(attr) == dot_split_from(attr, "")

\* obj_dot_update(obj, attr, value): the attribute at the end of the chain
\* is assigned when every name of the chain is there, with no check of
\* keys and no backup; the assignment is validated as any other.
RECURSIVE dot_update(_, _, _)
dot_update_under(current, name, sub) ==
    [m |-> [current EXCEPT !.fields[name] = sub.m], r |-> sub.r]

dot_update(current, attrs, value) ==
    IF ~hasattr(current, Head(attrs)) THEN [m |-> current, r |-> Value(None)]
    ELSE IF Len(attrs) = 1 THEN setattr(current, Head(attrs), value)
    ELSE dot_update_under(current, Head(attrs),
                          dot_update(current.fields[Head(attrs)], Tail(attrs), value))

obj_dot_update(obj, attr, value) == dot_update(obj, dot_split(attr), value)

\* delattr(obj, name) of a field the instance has.
delattr(obj, name) ==
    [obj EXCEPT !.fields = [n \in DOMAIN obj.fields \ {name} |-> obj.fields[n]],
                !.order = SelectSeq(@, LAMBDA n : n # name)]

\* obj_dot_delete(obj, attr): the attribute at the end of the chain is
\* deleted when every name of the chain is there; nothing is returned and
\* nothing raised.
RECURSIVE dot_delete(_, _)
dot_delete(obj, names) ==
    IF ~hasattr(obj, Head(names)) THEN obj
    ELSE IF Len(names) = 1 THEN delattr(obj, Head(names))
    ELSE [obj EXCEPT !.fields[Head(names)] = dot_delete(@, Tail(names))]

obj_dot_delete(obj, attr) ==
    [m |-> dot_delete(obj, dot_split(attr)), r |-> Value(None)]

(***************************************************************************)
(* The calls made on a BaseConfig.                                         *)
(***************************************************************************)
\* Updates: a field set, a field given a value of the wrong type, a nested
\* field set through a dict, a nested field given a value of the wrong
\* type, a nested key that is no field, a nested field named by a dotted
\* key; and something that is no dict.
UpdateItems ==
    {<<"debug", Bool(TRUE)>>,
     <<"debug", Str("red")>>,
     <<"pp", Dict(<<<<"color", Str("red")>>>>)>>,
     <<"pp", Dict(<<<<"width", Str("red")>>>>)>>,
     <<"pp", Dict(<<<<"colour", Str("red")>>>>)>>,
     <<"pp.color", Str("red")>>}

DistinctKeys(items) ==
    \A i, j \in DOMAIN items : i # j => items[i][1] # items[j][1]

UpdateDicts ==
    {Dict(items) : items \in {s \in UNION {[1..n -> UpdateItems] : n \in 1..MaxKeys} :
                                DistinctKeys(s)}}

UpdateArgs == UpdateDicts \cup {Str("red")}

CfgArgs(updates, copy) == [updates |-> updates, copy |-> copy]

NewPP == BaseModel("PP", [n \in {"color", "width"} |->
                            IF n = "color" THEN Str("blue") ELSE Int(80)])

NewOptions(debug) ==
    BaseModel("Options", [n \in {"debug", "pp"} |->
                            IF n = "debug" THEN Bool(debug) ELSE NewPP])

\* The instance has every field of its class, and so has its nested model.
RECURSIVE Whole(_)
Whole(m) ==
    \A i \in DOMAIN model_fields(m.cls) :
        /\ model_fields(m.cls)[i] \in DOMAIN m.fields
        /\ IsModel(m.fields[model_fields(m.cls)[i]])
               => Whole(m.fields[model_fields(m.cls)[i]])

\* d == e of two dicts: the same keys with equal values, in whatever order.
RECURSIVE dict_eq(_, _)
dict_eq(d, e) ==
    /\ DictKeys(d) = DictKeys(e)
    /\ \A k \in DictKeys(d) :
           IF IsDict(DictGet(d, k)) /\ IsDict(DictGet(e, k))
           THEN dict_eq(DictGet(d, k), DictGet(e, k))
           ELSE DictGet(d, k) = DictGet(e, k)

\* The nested model of an instance, None when the field was deleted.
nested_model(m) == IF "pp" \in DOMAIN m.fields THEN m.fields.pp ELSE None

\* entry is the instance as the outermost block open found it,
\* nested_changed whether the nested model has differed from it since, and
\* assigned whether obj_dot_update or obj_dot_delete was called on the
\* instance in the block.
NewConfig ==
    /\ cfg.state = "none"
    /\ \E debug \in BOOLEAN :
           cfg' = [state |-> "ready", obj |-> NewOptions(debug), inside |-> FALSE,
                   original |-> None, entry |-> None, nested_changed |-> FALSE,
                   assigned |-> FALSE]
    /\ ret' = Call("Options", NoArgs, Value(None))
    /\ UNCHANGED <<pf, md, fs, scan>>

Enter ==
    /\ cfg.state = "ready"
    /\ cfg.obj._context_depth < MaxContexts
    /\ cfg' = [cfg EXCEPT !.obj = __enter__(cfg.obj).m,
                          !.entry = IF cfg.obj._context_depth = 0 THEN cfg.obj ELSE @,
                          !.nested_changed = IF cfg.obj._context_depth = 0 THEN FALSE ELSE @,
                          !.assigned = IF cfg.obj._context_depth = 0 THEN FALSE ELSE @]
    /\ ret' = Call("__enter__", NoArgs, __enter__(cfg.obj).r)
    /\ UNCHANGED <<pf, md, fs, scan>>

Updated(op, args, o) ==
    /\ cfg' = [cfg EXCEPT !.obj = o.m,
                          !.nested_changed =
                              @ \/ (~IsNone(cfg.entry)
                                    /\ nested_model(o.m) # nested_model(cfg.entry))]
    /\ ret' = Call(op, args, o.r)
    /\ UNCHANGED <<pf, md, fs, scan>>

Update ==
    /\ cfg.state = "ready"
    /\ \E updates \in UpdateArgs, copy \in BOOLEAN :
           Updated("_update", CfgArgs(updates, copy), _update(cfg.obj, updates, copy, TRUE))

\* The attributes and the values obj_dot_update is called with: a field, a
\* field of the nested model, names that are no attribute, and a name
\* under a field that is no model; a bool and a str.
DotAttrs ==
    {<<"debug">>, <<"pp", ".", "color">>, <<"colour">>, <<"pp", ".", "colour">>,
     <<"debug", ".", "color">>}

DotValues == {Bool(TRUE), Str("red")}

DotArgs(attr, value) == [attr |-> attr, value |-> value]

DotUpdated(attr, value, o) ==
    /\ cfg' = [cfg EXCEPT !.obj = o.m,
                          !.nested_changed =
                              @ \/ (~IsNone(cfg.entry)
                                    /\ nested_model(o.m) # nested_model(cfg.entry)),
                          !.assigned = @ \/ cfg.obj._context_depth > 0]
    /\ ret' = Call("obj_dot_update", DotArgs(attr, value), o.r)
    /\ UNCHANGED <<pf, md, fs, scan>>

ObjDotUpdate ==
    /\ cfg.state = "ready"
    /\ \E attr \in DotAttrs, value \in DotValues :
           DotUpdated(attr, value, obj_dot_update(cfg.obj, attr, value))

\* The attributes obj_dot_delete is called with: a field, the field that
\* holds the nested model, a field of the nested model, a name that is no
\* attribute, and a name under a field that is no model.
DeleteAttrs ==
    {<<"debug">>, <<"pp">>, <<"pp", ".", "color">>, <<"colour">>,
     <<"debug", ".", "color">>}

DotDeleted(attr, o) ==
    /\ cfg' = [cfg EXCEPT !.obj = o.m,
                          !.nested_changed =
                              @ \/ (~IsNone(cfg.entry)
                                    /\ nested_model(o.m) # nested_model(cfg.entry)),
                          !.assigned = @ \/ cfg.obj._context_depth > 0]
    /\ ret' = Call("obj_dot_delete", [attr |-> attr], o.r)
    /\ UNCHANGED <<pf, md, fs, scan>>

ObjDotDelete ==
    /\ cfg.state = "ready"
    /\ \E attr \in DeleteAttrs :
           DotDeleted(attr, obj_dot_delete(cfg.obj, attr))

Exit ==
    /\ cfg.state = "ready"
    /\ Updated("__exit__", NoArgs, __exit__(cfg.obj))

NextCfg ==
    \/ NewConfig
    \/ Enter
    \/ Update
    \/ ObjDotUpdate
    \/ ObjDotDelete
    \/ Exit

SpecCfg == Init /\ [][NextCfg]_vars

(***************************************************************************)
(* Options.set_values (options.py): a context manager written as a         *)
(* generator.  It dumps the options, updates them in place and yields;     *)
(* when the block is left, normally or by an exception, its finally        *)
(* clause updates the options in place with the dump.  An exception of     *)
(* the first update leaves before the block is entered.                    *)
(***************************************************************************)
\* A finally clause that sets back the fields of the top level only.
set_values_finally_shallow(self, original) ==
    _update(self, Dict(SelectSeq(original.items, LAMBDA it : ~IsDict(it[2]))), FALSE, TRUE)

\* finally: self._update(original)
set_values_finally(self, original) == _update(self, original, FALSE, TRUE)

\* original = self.model_dump(); self._update(updates); yield
SetValuesDone(updates, o) ==
    /\ cfg' = [cfg EXCEPT !.obj = o.m,
                          !.inside = (o.r.kind = "value"),
                          !.original = IF o.r.kind = "value" THEN model_dump(cfg.obj) ELSE None,
                          !.entry = IF o.r.kind = "value" THEN cfg.obj ELSE None,
                          !.nested_changed = (o.m.fields.pp # cfg.obj.fields.pp)]
    /\ ret' = Call("set_values", CfgArgs(updates, FALSE), o.r)
    /\ UNCHANGED <<pf, md, fs, scan>>

SetValues ==
    /\ cfg.state = "ready" /\ ~cfg.inside
    /\ \E updates \in UpdateArgs :
           SetValuesDone(updates, _update(cfg.obj, updates, FALSE, TRUE))

\* The block is left: the finally clause runs, and the exception that left
\* the block, if one did, goes on unless the clause raises itself.
BlockLeft(exc, f) ==
    /\ cfg' = [cfg EXCEPT !.obj = f.m, !.inside = FALSE, !.original = None]
    /\ ret' = Call("set_values.__exit__", NoArgs, IF f.r.kind = "value" THEN exc ELSE f.r)
    /\ UNCHANGED <<pf, md, fs, scan>>

\* An in-place update made in the block; one that raises leaves the block.
BlockUpdated(updates, o) ==
    IF o.r.kind = "value"
    THEN Updated("_update", CfgArgs(updates, FALSE), o)
    ELSE BlockLeft(o.r, set_values_finally(o.m, cfg.original))

BlockUpdate ==
    /\ cfg.state = "ready" /\ cfg.inside
    /\ \E updates \in UpdateArgs :
           BlockUpdated(updates, _update(cfg.obj, updates, FALSE, TRUE))

BlockRaise ==
    /\ cfg.state = "ready" /\ cfg.inside
    /\ BlockLeft(Raise("Exception"), set_values_finally(cfg.obj, cfg.original))

BlockEnd ==
    /\ cfg.state = "ready" /\ cfg.inside
    /\ BlockLeft(Value(None), set_values_finally(cfg.obj, cfg.original))

NextOpt ==
    \/ NewConfig
    \/ SetValues
    \/ BlockUpdate
    \/ BlockRaise
    \/ BlockEnd

SpecOpt == Init /\ [][NextOpt]_vars

(***************************************************************************)
(* map_dot_subset (core/mappings.py).  A str is the sequence of its        *)
(* characters; a mapping is a function from its keys to its values, which  *)
(* are mappings or leaves.  The order in which a set or a dict is gone     *)
(* through does not show in the mapping returned.                          *)
(***************************************************************************)
\* Most keys at the top of a mapping.
MaxTop == 2

Mapping(f) == [py |-> "mapping", at |-> f]
EmptyMapping == Mapping(<<>>)
IsMapping(v) == v.py = "mapping"

\* str.split('.')
RECURSIVE split_from(_, _)
split_from(text, word) ==
    IF text = <<>> THEN <<word>>
    ELSE IF Head(text) = "." THEN <<word>> \o split_from(Tail(text), <<>>)
    ELSE split_from(Tail(text), Append(word, Head(text)))

split(key) == split_from(key, <<>>)

\* str.startswith
startswith(text, start) ==
    Len(start) <= Len(text) /\ SubSeq(text, 1, Len(start)) = start

\* as_set(excludes, none_as_empty=True) of None or a list
as_set(obj) == IF IsNone(obj) THEN {} ELSE {obj.items[i] : i \in DOMAIN obj.items}

\* f"{prefix}.{k}" if prefix else k
full_key(prefix, k) == IF prefix = <<>> THEN k ELSE prefix \o <<".">> \o k

\* select_keys: the dotted keys of the leaves, none at or under an
\* excluded key.
RECURSIVE select_keys(_, _, _)
select_keys(d, prefix, excludes) ==
    UNION {IF full_key(prefix, k) \in excludes THEN {}
           ELSE IF IsMapping(d.at[k]) THEN select_keys(d.at[k], full_key(prefix, k), excludes)
           ELSE {full_key(prefix, k)} : k \in DOMAIN d.at}

\* chk: the key starts with one of the includes.
chk(key, includes) ==
    \E i \in DOMAIN includes.items : startswith(key, includes.items[i])

\* map_dot_get
RECURSIVE get_keys(_, _)
get_keys(current, keys) ==
    IF keys = <<>> THEN current ELSE get_keys(current.at[Head(keys)], Tail(keys))

map_dot_get(base, key) == get_keys(base, split(key))

\* map_dot_update, as the mapping it leaves base to be.
RECURSIVE set_keys(_, _, _)
item_set(current, k, v) ==
    Mapping([x \in DOMAIN current.at \cup {k} |-> IF x = k THEN v ELSE current.at[x]])

set_keys(current, keys, value) ==
    IF Len(keys) = 1 THEN item_set(current, keys[1], value)
    ELSE item_set(current, Head(keys),
                  set_keys(IF Head(keys) \in DOMAIN current.at
                              /\ IsMapping(current.at[Head(keys)])
                           THEN current.at[Head(keys)]
                           ELSE EmptyMapping,
                           Tail(keys), value))

map_dot_update(base, key, value) == set_keys(base, split(key), value)

\* The loop that builds the result: a value that is None is left out.
RECURSIVE build_result(_, _, _)
build_one(result, base, key) ==
    IF ~IsNone(map_dot_get(base, key))
    THEN map_dot_update(result, key, map_dot_get(base, key))
    ELSE result

build_result(result, base, keys) ==
    IF keys = {} THEN result
    ELSE build_result(build_one(result, base, CHOOSE k \in keys : TRUE), base,
                      keys \ {CHOOSE k \in keys : TRUE})

\* `if includes:` holds for a list that is not empty.
included_keys(selected_keys, includes) ==
    IF ~IsNone(includes) /\ includes.items # <<>>
    THEN {x \in selected_keys : chk(x, includes)}
    ELSE selected_keys

map_dot_subset(base, includes, excludes) ==
    build_result(EmptyMapping, base,
                 included_keys(select_keys(base, <<>>, as_set(excludes)), includes))

\* The mappings, includes and excludes given.
KeyNames == {<<"a">>, <<"a", "b">>, <<"b">>}
InnerNames == {<<"a">>, <<"b">>}
LeafValues == {Int(1), None}

InnerMappings ==
    {Mapping(f) : f \in UNION {[S -> LeafValues] :
                                 S \in {T \in SUBSET InnerNames : Cardinality(T) <= 1}}}

BaseMappings ==
    {Mapping(f) : f \in UNION {[S -> LeafValues \cup InnerMappings] :
                                 S \in {T \in SUBSET KeyNames : Cardinality(T) <= MaxTop}}}

DotPaths ==
    KeyNames \cup {full_key(k, n) : k \in {<<"a">>, <<"a", "b">>}, n \in {<<"a">>}}

PathLists == {None, List(<<>>)} \cup {List(<<p>>) : p \in DotPaths}

\* The arguments of a call about to be made.
InitMap ==
    /\ pf = NewParsedFunc
    /\ md = NoModuleDefs
    /\ cfg = NoConfig
    /\ fs = NoFiles
    /\ scan = NoScan
    /\ \E base \in BaseMappings, includes \in PathLists, excludes \in PathLists :
           ret = Call("", [base |-> base, includes |-> includes, excludes |-> excludes],
                      NoCall)

MapDotSubset ==
    /\ ret.op = ""
    /\ ret' = Call("map_dot_subset", ret.args,
                   Value(map_dot_subset(ret.args.base, ret.args.includes,
                                        ret.args.excludes)))
    /\ UNCHANGED <<pf, md, cfg, fs, scan>>

SpecMap == InitMap /\ [][MapDotSubset]_vars

(***************************************************************************)
(* flatten_dict and unflatten_dict (core/structs.py), with the separator   *)
(* left at '.'.  dicts are the items in insertion order.                   *)
(***************************************************************************)
\* Most entries of a dict given to flatten_dict, those of its nested dicts
\* counted in.
MaxEntries == 3

\* f"{parent_key}{sep}{key}" if parent_key else key
flat_key(parent_key, key) == IF parent_key # <<>> THEN parent_key \o <<".">> \o key ELSE key

\* A flatten_dict that forgets the parent key.
RECURSIVE flatten_dict_bare_keys(_, _)
RECURSIVE flatten_bare_loop(_, _)
flatten_bare_loop(items, out) ==
    IF items = <<>> THEN out
    ELSE flatten_bare_loop(Tail(items),
             IF IsDict(Head(items)[2])
             THEN DictOr(out, flatten_dict_bare_keys(Head(items)[2], <<>>))
             ELSE DictSet(out, Head(items)[1], Head(items)[2]))

flatten_dict_bare_keys(obj, parent_key) == flatten_bare_loop(obj.items, EmptyDict)

RECURSIVE flatten_dict(_, _)
RECURSIVE flatten_loop(_, _, _)
flatten_loop(items, parent_key, out) ==
    IF items = <<>> THEN out
    ELSE flatten_loop(Tail(items), parent_key,
             IF IsDict(Head(items)[2])
             THEN DictOr(out, flatten_dict(Head(items)[2],
                                           flat_key(parent_key, Head(items)[1])))
             ELSE DictSet(out, flat_key(parent_key, Head(items)[1]), Head(items)[2]))

flatten_dict(obj, parent_key) == flatten_loop(obj.items, parent_key, EmptyDict)

\* The walk of unflatten_dict along the parts of one key, as the dict it
\* leaves `current` to be, or Conflict when it raises ValueError.
Conflict == [py |-> "ValueError"]

unflatten_under(current, part, below) ==
    IF below = Conflict THEN Conflict ELSE DictSet(current, part, below)

RECURSIVE unflatten_parts(_, _, _)
unflatten_parts(current, key_parts, value) ==
    IF Len(key_parts) = 1
    THEN IF DictHas(current, key_parts[1]) /\ IsDict(DictGet(current, key_parts[1]))
         THEN Conflict
         ELSE DictSet(current, key_parts[1], value)
    ELSE IF ~DictHas(current, Head(key_parts))
         THEN unflatten_under(current, Head(key_parts),
                              unflatten_parts(EmptyDict, Tail(key_parts), value))
         ELSE IF ~IsDict(DictGet(current, Head(key_parts)))
              THEN Conflict
              ELSE unflatten_under(current, Head(key_parts),
                                   unflatten_parts(DictGet(current, Head(key_parts)),
                                                   Tail(key_parts), value))

RECURSIVE unflatten_loop(_, _)
unflatten_loop(items, out) ==
    IF out = Conflict THEN Raise("ValueError")
    ELSE IF items = <<>> THEN Value(out)
    ELSE unflatten_loop(Tail(items),
                        unflatten_parts(out, split(Head(items)[1]), Head(items)[2]))

unflatten_dict(obj) == unflatten_loop(obj.items, EmptyDict)

\* The dicts given: keys with and without a '.', the empty key, values that
\* are 1 or dicts, the empty dict among them.
EntryKeys == {<<>>, <<"a">>, <<"b">>, <<"a", ".", "b">>}

RECURSIVE DictsOf(_)
DictsOf(n) ==
    IF n = 0 THEN {EmptyDict}
    ELSE UNION {{Dict(Append(t[1].items, <<t[2], t[3]>>)) :
                    t \in {u \in DictsOf(n - 1 - m) \X EntryKeys
                                 \X (IF m = 0 THEN {Int(1), EmptyDict} ELSE DictsOf(m)) :
                              u[2] \notin DictKeys(u[1])}} :
                m \in 0..(n - 1)}

NestedDicts == UNION {DictsOf(n) : n \in 0..MaxEntries}

InitFlat ==
    /\ pf = NewParsedFunc
    /\ md = NoModuleDefs
    /\ cfg = NoConfig
    /\ fs = NoFiles
    /\ scan = NoScan
    /\ \E d \in NestedDicts : ret = Call("", [d |-> d, obj |-> d], NoCall)

FlattenDict ==
    /\ ret.op = ""
    /\ ret' = Call("flatten_dict", ret.args, Value(flatten_dict(ret.args.obj, <<>>)))
    /\ UNCHANGED <<pf, md, cfg, fs, scan>>

\* unflatten_dict of what flatten_dict returned.
UnflattenDict ==
    /\ ret.op = "flatten_dict"
    /\ ret' = Call("unflatten_dict", [d |-> ret.args.d, obj |-> ret.out.val],
                   unflatten_dict(ret.out.val))
    /\ UNCHANGED <<pf, md, cfg, fs, scan>>

NextFlat ==
    \/ FlattenDict
    \/ UnflattenDict

SpecFlat == InitFlat /\ [][NextFlat]_vars

(***************************************************************************)
(* safe_copytree (core/fstools/safeio.py) on a source folder and a         *)
(* destination that are apart from each other.  A folder is the function   *)
(* from the paths under it, each the sequence of its names, to what is     *)
(* there: a folder or a file with its text.  There are no links, and the   *)
(* names are single letters, so that the order of the paths as text is     *)
(* their order name by name.  walk is called with its defaults, as         *)
(* safe_copytree does when given no further keyword.                       *)
(***************************************************************************)
\* Most files and folders under a folder.
MaxPaths == 3

Folder == [kind |-> "dir"]
File(text) == [kind |-> "file", text |-> text]
Absent == [kind |-> "absent"]

\* What is at the destination: nothing, a file, or a folder.
DstAbsent == [kind |-> "absent", at |-> <<>>]
DstFile == [kind |-> "file", at |-> <<>>]
DstDir(folder) == [kind |-> "dir", at |-> folder]

\* Path.exists() of dst / rel: false too when a name on the way is a file.
dst_exists(dst, rel) == dst.kind = "dir" /\ rel \in DOMAIN dst.at

NameRank(n) == CASE n = "a" -> 1 [] n = "b" -> 2

RECURSIVE PathLess(_, _)
PathLess(x, y) ==
    IF y = <<>> THEN FALSE
    ELSE IF x = <<>> THEN TRUE
    ELSE IF Head(x) = Head(y) THEN PathLess(Tail(x), Tail(y))
    ELSE NameRank(Head(x)) < NameRank(Head(y))

\* sorted(paths, key=lambda x: (not x.is_dir(), str(x))) of files
RECURSIVE sorted_paths(_)
sorted_paths(S) ==
    IF S = {} THEN <<>>
    ELSE <<CHOOSE x \in S : \A y \in S \ {x} : PathLess(x, y)>>
         \o sorted_paths(S \ {CHOOSE x \in S : \A y \in S \ {x} : PathLess(x, y)})

\* walk(root=src, as_path=True, parents=False): the files under src.
walk(src) == sorted_paths({rel \in DOMAIN src : src[rel].kind = "file"})

SrcPath(rel) == [root |-> "src", rel |-> rel]
DstPath(rel) == [root |-> "dst", rel |-> rel]

\* The loop over the files walked: the pairs to copy, or FileExistsError at
\* the first file that has a counterpart when raise_if_exists is given.
RECURSIVE pairs_loop(_, _, _, _)
pairs_loop(rels, dst, raise_if_exists, paths) ==
    IF rels = <<>> THEN Value(List(paths))
    ELSE IF dst_exists(dst, Head(rels))
         THEN IF raise_if_exists THEN Raise("FileExistsError")
              ELSE pairs_loop(Tail(rels), dst, raise_if_exists, paths)
         ELSE pairs_loop(Tail(rels), dst, raise_if_exists,
                         Append(paths, <<SrcPath(Head(rels)), DstPath(Head(rels))>>))

\* The folders above a path, from the top down, the path itself left out.
Parents(rel) == {SubSeq(rel, 1, n) : n \in 1..(Len(rel) - 1)}

\* dst.parent.mkdir(parents=True, exist_ok=True): the error it raises, or
\* "" when the folders above dst / rel are there afterwards.
mkdir_error(dst, rel) ==
    IF dst.kind = "file"
    THEN IF Len(rel) = 1 THEN "FileExistsError" ELSE "NotADirectoryError"
    ELSE IF dst.kind = "absent" THEN ""
    ELSE IF \E q \in Parents(rel) : q \in DOMAIN dst.at /\ dst.at[q].kind = "file"
         THEN IF SubSeq(rel, 1, Len(rel) - 1) \in DOMAIN dst.at
                 /\ dst.at[SubSeq(rel, 1, Len(rel) - 1)].kind = "file"
              THEN "FileExistsError"
              ELSE "NotADirectoryError"
         ELSE ""

\* The destination once dst.parent.mkdir has made the folders above
\* dst / rel that were not there.
parents_made(dst, rel) ==
    DstDir([q \in (IF dst.kind = "dir" THEN DOMAIN dst.at ELSE {}) \cup Parents(rel) |->
              IF dst.kind = "dir" /\ q \in DOMAIN dst.at THEN dst.at[q] ELSE Folder])

\* Where shutil.copy2(src, dst) writes: under dst, with the name of the
\* source, when dst is a folder; at dst otherwise.
copy2_target(dst, srel, drel) ==
    IF drel \in DOMAIN dst.at /\ dst.at[drel].kind = "dir"
    THEN Append(drel, srel[Len(srel)])
    ELSE drel

copy2_at(src, dst, srel, target) ==
    IF target \in DOMAIN dst.at /\ dst.at[target].kind = "dir"
    THEN [dst |-> dst, r |-> Raise("IsADirectoryError")]
    ELSE [dst |-> DstDir([q \in DOMAIN dst.at \cup {target} |->
                            IF q = target THEN File(src[srel].text) ELSE dst.at[q]]),
          r |-> Value(None)]

\* open(src / srel) of a path that is not there: a name on the way to it
\* may be that of a file.
open_error(src, srel) ==
    IF \E q \in Parents(srel) : q \in DOMAIN src /\ src[q].kind = "file"
    THEN "NotADirectoryError"
    ELSE "FileNotFoundError"

\* shutil.copy2(src / srel, dst / drel): a file that is there is written
\* over.
copy2(src, dst, srel, drel) ==
    IF srel \notin DOMAIN src THEN [dst |-> dst, r |-> Raise(open_error(src, srel))]
    ELSE IF src[srel].kind = "dir" THEN [dst |-> dst, r |-> Raise("IsADirectoryError")]
    ELSE copy2_at(src, dst, srel, copy2_target(dst, srel, drel))

\* copy_with_parents(src / srel, dst / drel): the folders above are made,
\* then the file is copied; the folders made stay when the copy raises.
copy_with_parents(src, dst, srel, drel) ==
    IF mkdir_error(dst, drel) # ""
    THEN [dst |-> dst, r |-> Raise(mkdir_error(dst, drel))]
    ELSE copy2(src, parents_made(dst, drel), srel, drel)

\* safe_copy(src / srel, dst / drel, raise_if_exists)
safe_copied(o) == [dst |-> o.dst, r |-> IF o.r.kind = "value" THEN Value(Bool(TRUE)) ELSE o.r]

safe_copy(src, dst, srel, drel, raise_if_exists) ==
    IF srel \notin DOMAIN src THEN [dst |-> dst, r |-> Raise("FileNotFoundError")]
    ELSE IF src[srel].kind # "file" THEN [dst |-> dst, r |-> Raise("ValueError")]
    ELSE IF dst_exists(dst, drel)
    THEN [dst |-> dst,
          r |-> IF raise_if_exists THEN Raise("FileExistsError") ELSE Value(Bool(FALSE))]
    ELSE safe_copied(copy_with_parents(src, dst, srel, drel))

\* The loop that copies: the destination as it is left, and the outcome.
RECURSIVE copytree_loop(_, _, _)
copytree_step(src, o, paths) ==
    IF o.r.kind # "value" THEN o ELSE copytree_loop(src, o.dst, paths)

copytree_loop(src, dst, paths) ==
    IF paths = <<>> THEN [dst |-> dst, r |-> Value(None)]
    ELSE IF dst_exists(dst, Head(paths)[2].rel)
         THEN [dst |-> dst, r |-> Raise("AssertionError")]
         ELSE copytree_step(src,
                            copy_with_parents(src, dst, Head(paths)[1].rel,
                                              Head(paths)[2].rel),
                            Tail(paths))

\* After the pairs are listed.
copytree_listed(src, dst, listed, dry_run) ==
    IF listed.kind = "raise" \/ dry_run THEN [dst |-> dst, r |-> listed]
    ELSE copytree_loop(src, dst, listed.val.items)

safe_copytree(src, dst, raise_if_exists, dry_run) ==
    IF dst.kind = "file" THEN [dst |-> dst, r |-> Raise("ValueError")]
    ELSE copytree_listed(src, dst, pairs_loop(walk(src), dst, raise_if_exists, <<>>),
                         dry_run)

\* The folders given: at most two levels of files and folders.
FsNames == {"a", "b"}

TopEntries ==
    {[kind |-> "none", names |-> {}], [kind |-> "file", names |-> {}]}
        \cup {[kind |-> "dir", names |-> S] : S \in SUBSET FsNames}

TreePaths(top) ==
    {<<n>> : n \in {m \in FsNames : top[m].kind # "none"}}
        \cup {<<t[1], t[2]>> : t \in {u \in FsNames \X FsNames : u[2] \in top[u[1]].names}}

TreeOf(top, text) ==
    [rel \in TreePaths(top) |->
        IF Len(rel) = 1 /\ top[rel[1]].kind = "dir" THEN Folder ELSE File(text)]

TreesWith(text) ==
    {TreeOf(top, text) : top \in {t \in [FsNames -> TopEntries] :
                                     Cardinality(TreePaths(t)) <= MaxPaths}}

InitFs ==
    /\ pf = NewParsedFunc
    /\ md = NoModuleDefs
    /\ cfg = NoConfig
    /\ \E src \in TreesWith("new"),
          dst \in {DstAbsent, DstFile} \cup {DstDir(t) : t \in TreesWith("old")} :
           fs = [state |-> "ready", src |-> src, dst |-> dst]
    /\ scan = NoScan
    /\ ret = Call("", NoArgs, NoCall)

CopytreeDone(args, o) ==
    /\ fs' = [fs EXCEPT !.dst = o.dst]
    /\ ret' = Call("safe_copytree", args, o.r)
    /\ UNCHANGED <<pf, md, cfg, scan>>

SafeCopytree ==
    \E raise_if_exists \in BOOLEAN, dry_run \in BOOLEAN :
        CopytreeDone([before |-> fs, raise_if_exists |-> raise_if_exists,
                      dry_run |-> dry_run],
                     safe_copytree(fs.src, fs.dst, raise_if_exists, dry_run))

\* The paths the single-file copies are called with: under src a name
\* that is a file, a folder or nothing; under dst the same.
CopyPaths == {<<"a">>, <<"b">>, <<"a", "b">>}

CopyArgs(srel, drel, raise_if_exists) ==
    [before |-> fs, src |-> SrcPath(srel), dst |-> DstPath(drel),
     raise_if_exists |-> raise_if_exists, dry_run |-> FALSE]

CopyDone(op, args, o) ==
    /\ fs' = [fs EXCEPT !.dst = o.dst]
    /\ ret' = Call(op, args, o.r)
    /\ UNCHANGED <<pf, md, cfg, scan>>

SafeCopy ==
    \E srel \in CopyPaths, drel \in CopyPaths, raise_if_exists \in BOOLEAN :
        CopyDone("safe_copy", CopyArgs(srel, drel, raise_if_exists),
                 safe_copy(fs.src, fs.dst, srel, drel, raise_if_exists))

CopyWithParents ==
    \E srel \in CopyPaths, drel \in CopyPaths :
        CopyDone("copy_with_parents", CopyArgs(srel, drel, FALSE),
                 copy_with_parents(fs.src, fs.dst, srel, drel))

NextFs ==
    \/ SafeCopytree
    \/ SafeCopy
    \/ CopyWithParents

SpecFs == InitFs /\ [][NextFs]_vars

(***************************************************************************)
(* The suite property of _ParsedFuncNodes step by step: the test of the    *)
(* `while`, the body of the loop on the first child, and the statements    *)
(* after the loop.  Each is one step; a process that is in the loop keeps  *)
(* running it.                                                             *)
(***************************************************************************)
\* The suites scanned: those of the functions of FuncShapes.
ScanSuites == {MkSuite(shape, shape.ndecor + 1) : shape \in FuncShapes}

InitScan ==
    /\ pf = NewParsedFunc
    /\ md = NoModuleDefs
    /\ cfg = NoConfig
    /\ fs = NoFiles
    /\ \E s \in ScanSuites :
           scan = [pc |-> "while", suite |-> s, children |-> s.children,
                   newlines |-> <<>>, doc |-> None]
    /\ ret = Call("", NoArgs, NoCall)

\* while True and len(children) > 0:
ScanWhile ==
    /\ scan.pc = "while"
    /\ scan' = [scan EXCEPT !.pc = IF Len(scan.children) > 0 THEN "child" ELSE "after"]
    /\ UNCHANGED <<pf, md, cfg, fs, ret>>

\* The body of the loop.  A simple_stmt whose first child is no string
\* reaches the end of the body with nothing assigned and no break.
scan_child(sc, child) ==
    IF child.type = "newline"
    THEN [sc EXCEPT !.newlines = Append(sc.newlines, child),
                    !.children = Tail(sc.children),
                    !.pc = "while"]
    ELSE IF child.type = "simple_stmt"
         THEN IF child.children[1].type = "string"
              THEN [sc EXCEPT !.doc = child,
                              !.children = Tail(sc.children),
                              !.pc = "after"]
              ELSE [sc EXCEPT !.pc = "while"]
         ELSE [sc EXCEPT !.pc = "after"]

ScanChild ==
    /\ scan.pc = "child"
    /\ scan' = scan_child(scan, scan.children[1])
    /\ UNCHANGED <<pf, md, cfg, fs, ret>>

\* After the loop: the FuncSuiteParts returned.
ScanReturn ==
    /\ scan.pc = "after"
    /\ scan' = [scan EXCEPT !.pc = "done"]
    /\ ret' = Call("suite", NoArgs, suite_result(scan.newlines, scan.doc, scan.children))
    /\ UNCHANGED <<pf, md, cfg, fs>>

NextScan ==
    \/ ScanWhile
    \/ ScanChild
    \/ ScanReturn

SpecScan == InitScan /\ [][NextScan]_vars /\ WF_vars(NextScan)

(***************************************************************************)
(* _ParsedFuncNodes over a function node handed to it as it is: the nodes  *)
(* parso builds, and nodes with children after the suite, which the        *)
(* decomposition by position does not consume.                             *)
(***************************************************************************)
\* Most children after the suite.
MaxExtra == 1

ExtraChildren(n) == [i \in 1..n |-> Newline(9)]

PartsNodes ==
    {Node("funcdef", MkFuncdef("f", shape).children \o ExtraChildren(n)) :
        shape \in FuncShapes, n \in 0..MaxExtra}

InitParts ==
    /\ \E node \in PartsNodes :
           pf = [NewParsedFunc EXCEPT !.state = "ready", !.obj = None,
                                      !.name = Str("f"), !.src = None, !.func = node]
    /\ md = NoModuleDefs
    /\ cfg = NoConfig
    /\ fs = NoFiles
    /\ scan = NoScan
    /\ ret = Call("", NoArgs, NoCall)

NextParts ==
    \/ GetParts
    \/ GetSuite
    \/ GetSig
    \/ GetDoc
    \/ GetBody

SpecParts == InitParts /\ [][NextParts]_vars

(***************************************************************************)
(* ParsedFuncCode over modules of several definitions: functions f and g,  *)
(* a class, and `if` statements, nested in each other in every way, and    *)
(* func asked for f or for g.  The source is kept as the statements it is  *)
(* made of, next to its text.                                              *)
(***************************************************************************)
FindLabels ==
    {[kind |-> "def", name |-> "f"], [kind |-> "def", name |-> "g"],
     [kind |-> "class", name |-> "f"], [kind |-> "if", name |-> "x"]}

RECURSIVE FindSourcesOf(_)
FindItemsOf(k) == {Item(l, f) : l \in FindLabels, f \in FindSourcesOf(k - 1)}

FindSourcesOf(n) ==
    IF n = 0 THEN {<<>>}
    ELSE UNION {{<<it>> \o rest : it \in FindItemsOf(k), rest \in FindSourcesOf(n - k)}
                : k \in 1..n}

FindSources == UNION {FindSourcesOf(n) : n \in 0..MaxNodes}

SourceOf(forest) ==
    [py |-> "str", s |-> get_code(parse_module(forest)), forest |-> forest,
     forest_stmts |-> BuildStmts(forest, <<>>, 1)]

\* ParsedFuncCode(name, src): the name and the source are stored, nothing
\* is parsed.
InitFind ==
    /\ \E forest \in FindSources, name \in {"f", "g"} :
           pf = [NewParsedFunc EXCEPT !.state = "ready", !.obj = None,
                                      !.name = Str(name), !.src = SourceOf(forest)]
    /\ md = NoModuleDefs
    /\ cfg = NoConfig
    /\ fs = NoFiles
    /\ scan = NoScan
    /\ ret = Call("", NoArgs, NoCall)

NextFind ==
    \/ GetTree
    \/ GetFunc

SpecFind == InitFind /\ [][NextFind]_vars

(***************************************************************************)
(* `with` blocks on a BaseConfig inside one another, with in-place updates *)
(* before, in and after them.  entries holds, for every block that is      *)
(* open, the instance as the block found it when it was entered.           *)
(***************************************************************************)
\* Most blocks open at a time.
MaxNesting == 2

\* Fields set to either of two values, a nested field set, and updates
\* that raise: a value of the wrong type after a key that is set, a key
\* that is no field, and something that is no dict.
NestedUpdates ==
    {Dict(<<<<"debug", Bool(b)>>>>) : b \in BOOLEAN}
        \cup {Dict(<<<<"pp", Dict(<<<<"color", Str(c)>>>>)>>>>) : c \in {"red", "blue"}}
        \cup {Dict(<<<<"pp", Dict(<<<<"color", Str("red")>>>>)>>, <<"debug", Str("red")>>>>),
              Dict(<<<<"debug", Bool(TRUE)>>, <<"colour", Str("red")>>>>),
              Str("red")}

NewNested ==
    /\ cfg.state = "none"
    /\ \E debug \in BOOLEAN :
           cfg' = [state |-> "ready", obj |-> NewOptions(debug), inside |-> FALSE,
                   original |-> None, entry |-> None, nested_changed |-> FALSE,
                   entries |-> <<>>]
    /\ ret' = Call("Options", NoArgs, Value(None))
    /\ UNCHANGED <<pf, md, fs, scan>>

EnterNested ==
    /\ cfg.state = "ready"
    /\ cfg.obj._context_depth < MaxNesting
    /\ cfg' = [cfg EXCEPT !.obj = __enter__(cfg.obj).m,
                          !.entries = Append(@, cfg.obj)]
    /\ ret' = Call("__enter__", NoArgs, __enter__(cfg.obj).r)
    /\ UNCHANGED <<pf, md, fs, scan>>

NestedUpdated(updates, o) ==
    /\ cfg' = [cfg EXCEPT !.obj = o.m]
    /\ ret' = Call("_update", CfgArgs(updates, FALSE), o.r)
    /\ UNCHANGED <<pf, md, fs, scan>>

UpdateNested ==
    /\ cfg.state = "ready"
    /\ \E updates \in NestedUpdates :
           NestedUpdated(updates, _update(cfg.obj, updates, FALSE, TRUE))

NestedLeft(o) ==
    /\ cfg' = [cfg EXCEPT !.obj = o.m,
                          !.entries = IF o.r.kind = "value"
                                      THEN SubSeq(@, 1, Len(@) - 1) ELSE @]
    /\ ret' = Call("__exit__", NoArgs, o.r)
    /\ UNCHANGED <<pf, md, fs, scan>>

ExitNested ==
    /\ cfg.state = "ready"
    /\ NestedLeft(__exit__(cfg.obj))

NextNest ==
    \/ NewNested
    \/ EnterNested
    \/ UpdateNested
    \/ ExitNested

SpecNest == Init /\ [][NextNest]_vars

(***************************************************************************)
(* What the claims speak of, read off the parse tree itself.               *)
(***************************************************************************)
\* The children of a suite after its leading newlines.
RECURSIVE AfterNewlines(_)
AfterNewlines(children) ==
    IF children # <<>> /\ Head(children).type = "newline"
    THEN AfterNewlines(Tail(children))
    ELSE children

\* The suite's first non-newline child is a simple statement that starts
\* with a string literal.
SuiteHasDocstring(s) ==
    LET rest == AfterNewlines(s.children)
    IN /\ rest # <<>>
       /\ rest[1].type = "simple_stmt"
       /\ rest[1].children[1].type = "string"

\* A list of nodes as the suite parts hold it: None when it is empty.
ListOrNone(nodes) == IF nodes = <<>> THEN None ELSE List(nodes)

\* The suite of the function the instance has decomposed.
TheSuite == pf.parts.suite
SuiteKnown == IsSet(pf.parts) /\ ~IsNone(pf.parts.suite)

(***************************************************************************)
(* C1.  A function whose suite has no docstring (its first non-newline     *)
(* child is not a simple statement starting with a string literal)         *)
(* decomposes with doc absent, codes.doc = "", and a body that holds every *)
(* child after the leading newlines, in source order, the function's first *)
(* statement first.                                                        *)
(***************************************************************************)
C1_NoDocstringBody ==
    (SuiteKnown /\ ~SuiteHasDocstring(TheSuite)) =>
        /\ ret.op = "suite" =>
              /\ ret.out.kind = "value"
              /\ IsNone(ret.out.val.doc)
              /\ ret.out.val.body = ListOrNone(AfterNewlines(TheSuite.children))
        /\ ret.op = "codes.doc" => ret.out = Value(Str(<<>>))
        /\ ret.op = "codes.body" =>
              ret.out = Value(Str(join_codes(AfterNewlines(TheSuite.children))))

(***************************************************************************)
(* C2.  When the suite's first non-newline child is a simple statement     *)
(* starting with a string literal, doc is exactly that statement and body  *)
(* exactly the children after it, in order; the docstring statement is not *)
(* in body; and doc is set in no other case.                               *)
(***************************************************************************)
C2_DocstringSplit ==
    /\ (ret.op = "suite" /\ SuiteKnown /\ SuiteHasDocstring(TheSuite)) =>
          LET rest == AfterNewlines(TheSuite.children) IN
          /\ ret.out.kind = "value"
          /\ ret.out.val.doc = rest[1]
          /\ ret.out.val.body = ListOrNone(Tail(rest))
          /\ ~IsNone(ret.out.val.body) =>
                \A i \in DOMAIN ret.out.val.body.items :
                    ret.out.val.body.items[i] # rest[1]
    /\ (IsSet(pf.suite) /\ ~IsNone(pf.suite.doc)) => SuiteHasDocstring(TheSuite)

C2_Witness ==
    /\ ret.op = "suite"
    /\ ret.out.kind = "value"
    /\ ~IsNone(ret.out.val.doc)
    /\ ~IsNone(ret.out.val.body)
    /\ ~IsNone(ret.out.val.newlines)

(***************************************************************************)
(* C3.  Round trip: for a function that decomposes, decor + sig + doc +    *)
(* body of the codes view is the text of the function's decorators         *)
(* followed by the text of every child of the function node, in document   *)
(* order, each once.                                                       *)
(***************************************************************************)
CodesRead ==
    /\ pf.state = "ready"
    /\ \A i \in DOMAIN NtupFields : IsSet(pf.codes[NtupFields[i]])

C3_RoundTrip ==
    CodesRead =>
        pf.codes.decor.s \o pf.codes.sig.s \o pf.codes.doc.s \o pf.codes.body.s
            = join_codes(get_decorators(pf.tree, pf.func)) \o join_codes(pf.func.children)

\* The four texts of the codes view have been read, codes.decor last, of
\* a decorated function with a return annotation, a docstring and a body.
C3_Witness ==
    /\ CodesRead
    /\ ret.op = "codes.decor"
    /\ pf.codes.decor.s # <<>>
    /\ pf.codes.doc.s # <<>>
    /\ pf.codes.body.s # <<>>
    /\ ~IsNone(pf.parts.arrow)

(***************************************************************************)
(* C4.  Every class or function definition, at any depth, has as its key   *)
(* in cls_or_func_defs the names of its enclosing definitions, outermost   *)
(* first, and then its own, joined by dots (A.B.C for C inside B inside    *)
(* A); definitions with different enclosing chains never share a key.      *)
(* Stated for an index without the module prefix.                          *)
(***************************************************************************)
\* The definitions among these statements and in the blocks of those
\* definitions, each with the chain of names down to it.
RECURSIVE DefsUnder(_, _)
DefsUnder(children, chain) ==
    UNION {IF children[i].type \in {"funcdef", "classdef"}
           THEN LET own == Append(chain, children[i].children[2].value)
                IN {<<own, children[i]>>}
                   \cup DefsUnder(children[i].children[Len(children[i].children)].children,
                                  own)
           ELSE {} : i \in DOMAIN children}

RECURSIVE DotJoin(_)
DotJoin(chain) ==
    IF Len(chain) = 1 THEN chain ELSE <<Head(chain), ".">> \o DotJoin(Tail(chain))

C4_QualifiedKeys ==
    (ret.op = "cls_or_func_defs" /\ md.mod_prefix = <<>>) =>
        LET all == DefsUnder(md.tree.children, <<>>) IN
        /\ DictKeys(ret.out.val) = {DotJoin(c[1]) : c \in all}
        /\ \A c \in all :
              DictGet(ret.out.val, DotJoin(c[1])) \in {d[2] : d \in {e \in all : e[1] = c[1]}}

\* A definition is indexed when no later definition beside it has its name.
Indexed(children, i) ==
    \A j \in DOMAIN children :
        (j > i /\ children[j].type \in {"funcdef", "classdef"})
            => children[j].children[2].value # children[i].children[2].value

\* The names the import statements bind, each with the chain of the
\* definitions around it and the statement that binds it.
RECURSIVE ImportsUnder(_, _)
ImportsUnder(children, chain) ==
    UNION {IF children[i].type = "simple_stmt"
              /\ children[i].children[1].type = "import_name"
           THEN {<<Append(chain, get_defined_names(children[i].children[1])[j].value),
                   children[i].children[1]>>
                 : j \in DOMAIN get_defined_names(children[i].children[1])}
           ELSE IF children[i].type = "if_stmt"
           THEN ImportsUnder(children[i].children[4].children, chain)
           ELSE IF children[i].type \in {"funcdef", "classdef"} /\ Indexed(children, i)
           THEN ImportsUnder(children[i].children[Len(children[i].children)].children,
                             Append(chain, children[i].children[2].value))
           ELSE {} : i \in DOMAIN children}

(***************************************************************************)
(* C11.  imports has one key for each name an import statement binds at    *)
(* the module root or inside an indexed definition, every name of a        *)
(* multi-name import included: the name after the dot-joined chain of the  *)
(* definitions around the statement (the bare name at the root); its       *)
(* value is an import statement binding that name there.                   *)
(***************************************************************************)
C11_ImportKeys ==
    (ret.op = "imports" /\ md.mod_prefix = <<>>) =>
        LET all == ImportsUnder(md.tree.children, <<>>) IN
        /\ ret.out.kind = "value"
        /\ DictKeys(ret.out.val) = {DotJoin(c[1]) : c \in all}
        /\ \A c \in all :
              DictGet(ret.out.val, DotJoin(c[1])) \in {d[2] : d \in {e \in all : e[1] = c[1]}}

\* The same, of the modules nested two definitions deep at most.
C11_ShallowImportKeys ==
    (ret.op = "imports" /\ md.mod_prefix = <<>>
        /\ \A c \in ImportsUnder(md.tree.children, <<>>) : Len(c[1]) <= 3) =>
        LET all == ImportsUnder(md.tree.children, <<>>) IN
        /\ DictKeys(ret.out.val) = {DotJoin(c[1]) : c \in all}

\* The simple statements right under the module root or the block of an
\* indexed definition that assign to a bare name, each with the chain of
\* the definitions around it and the name.
RECURSIVE VariablesUnder(_, _)
VariablesUnder(children, chain) ==
    UNION {IF /\ children[i].type = "simple_stmt"
              /\ children[i].children[1].type = "expr_stmt"
              /\ children[i].children[1].children[1].type = "name"
           THEN {<<Append(chain, children[i].children[1].children[1].value), children[i]>>}
           ELSE IF children[i].type \in {"funcdef", "classdef"} /\ Indexed(children, i)
           THEN VariablesUnder(children[i].children[Len(children[i].children)].children,
                               Append(chain, children[i].children[2].value))
           ELSE {} : i \in DOMAIN children}

(***************************************************************************)
(* C12.  variables has a key exactly for each simple statement that is a   *)
(* direct child of the module root or of the body of an indexed            *)
(* definition and assigns to a bare name: the name after the dot-joined    *)
(* chain of the definitions around it; its value is such a statement.      *)
(* Tuple, attribute and subscript targets and assignments under a          *)
(* compound statement give no key.                                         *)
(***************************************************************************)
C12_VariableKeys ==
    (ret.op = "variables" /\ md.mod_prefix = <<>>) =>
        LET all == VariablesUnder(md.tree.children, <<>>) IN
        /\ ret.out.kind = "value"
        /\ DictKeys(ret.out.val) = {DotJoin(c[1]) : c \in all}
        /\ \A c \in all :
              DictGet(ret.out.val, DotJoin(c[1])) \in {d[2] : d \in {e \in all : e[1] = c[1]}}

\* The same, of the modules nested two definitions deep at most.
C12_ShallowVariableKeys ==
    (ret.op = "variables" /\ md.mod_prefix = <<>>
        /\ \A c \in VariablesUnder(md.tree.children, <<>>) : Len(c[1]) <= 3) =>
        LET all == VariablesUnder(md.tree.children, <<>>) IN
        /\ DictKeys(ret.out.val) = {DotJoin(c[1]) : c \in all}

(***************************************************************************)
(* C10.  defs has exactly the keys of cls_or_func_defs, imports and        *)
(* variables together; a key has the value variables gives it if it is     *)
(* there, else the one imports gives it, else the one cls_or_func_defs     *)
(* gives it; reading defs raises nothing.                                  *)
(***************************************************************************)
C10_DefsUnion ==
    ret.op = "defs" =>
        /\ ret.out.kind = "value"
        /\ DictKeys(ret.out.val) =
              DictKeys(md.cls_or_func_defs) \cup DictKeys(md.imports) \cup DictKeys(md.variables)
        /\ \A k \in DictKeys(ret.out.val) :
              DictGet(ret.out.val, k) =
                  IF DictHas(md.variables, k) THEN DictGet(md.variables, k)
                  ELSE IF DictHas(md.imports, k) THEN DictGet(md.imports, k)
                  ELSE DictGet(md.cls_or_func_defs, k)

C10_Witness ==
    /\ ret.op = "defs"
    /\ \E k \in DictKeys(ret.out.val) :
          /\ DictHas(md.cls_or_func_defs, k)
          /\ DictHas(md.imports, k)
          /\ DictHas(md.variables, k)
          /\ DictGet(ret.out.val, k) = DictGet(md.variables, k)
          /\ DictGet(md.variables, k) # DictGet(md.imports, k)
          /\ DictGet(md.imports, k) # DictGet(md.cls_or_func_defs, k)

(***************************************************************************)
(* C5.  What mk_sig is claimed to return, and what it returns.             *)
(***************************************************************************)
\* The child of a function node that a signature field names, by the place
\* the grammar gives it:  'def' NAME parameters ['->' test] ':' suite.
SigChild(f, field) ==
    LET annotated == Len(f.children) = 7 IN
    CASE field = "kw_def" -> f.children[1]
      [] field = "name" -> f.children[2]
      [] field = "parms" -> f.children[3]
      [] field = "arrow" -> IF annotated THEN f.children[4] ELSE None
      [] field = "annotation" -> IF annotated THEN f.children[5] ELSE None
      [] field = "colon" -> IF annotated THEN f.children[6] ELSE f.children[4]

\* The text of the fields named, one after the other, absent ones skipped.
RECURSIVE FieldsText(_, _)
FieldsText(f, names) ==
    IF names = <<>> THEN <<>>
    ELSE (IF IsNone(SigChild(f, Head(names))) THEN <<>>
          ELSE get_code(SigChild(f, Head(names))))
         \o FieldsText(f, Tail(names))

AttrsGiven == IF IsNone(ret.args.attrs) THEN FUNC_SIG_ATTRS ELSE ret.args.attrs.items

\* C5 as stated: mk_sig(attrs) is the text of the selected signature
\* sub-nodes in the fixed field order kw_def, name, parms, arrow, annotation,
\* colon whatever the order of the names in attrs, absent fields skipped.
C5_SigInFieldOrder ==
    (ret.op = "mk_sig" /\ ret.out.kind = "value") =>
        ret.out.val.s =
            FieldsText(pf.func,
                       SelectSeq(FUNC_SIG_ATTRS,
                                 LAMBDA a : \E i \in DOMAIN AttrsGiven : AttrsGiven[i] = a))

\* C5 amended: mk_sig(attrs) is the text of the signature sub-nodes named by
\* attrs in the order of attrs, a name listed twice giving its text twice,
\* absent fields (arrow and annotation without a return annotation) skipped.
C5_SigInAttrsOrder ==
    (ret.op = "mk_sig" /\ ret.out.kind = "value") =>
        ret.out.val.s = FieldsText(pf.func, AttrsGiven)

C5_Witness ==
    /\ ret.op = "mk_sig"
    /\ ret.args.attrs = List(<<"annotation", "kw_def">>)
    /\ Len(pf.func.children) = 7
    /\ ret.out = Value(Str(<<" ", "int", "def">>))

(***************************************************************************)
(* C6.  Constructing ParsedFunc with neither a callable nor a source text  *)
(* raises, whatever the name, and produces no instance.                    *)
(***************************************************************************)
C6_NeitherRaises ==
    (ret.op = "__init__" /\ IsNone(ret.args.obj) /\ IsNone(ret.args.src)) =>
        (ret.out.kind = "raise" /\ pf.state # "ready")

(***************************************************************************)
(* C7.  Constructing ParsedFunc with both a callable and a source text     *)
(* raises, and so does constructing it with a source text and no name; no  *)
(* instance is produced.  A callable alone, or a name and a source text,   *)
(* is accepted.                                                            *)
(***************************************************************************)
C7_ConstructionErrors ==
    ret.op = "__init__" =>
        /\ (~IsNone(ret.args.obj) /\ ~IsNone(ret.args.src)) =>
              (ret.out = Raise("ValueError") /\ pf.state = "raised")
        /\ (IsNone(ret.args.obj) /\ ~IsNone(ret.args.src) /\ IsNone(ret.args.name)) =>
              (ret.out = Raise("ValueError") /\ pf.state = "raised")
        /\ (~IsNone(ret.args.obj) /\ IsNone(ret.args.src)) =>
              (ret.out.kind = "value" /\ pf.state = "ready")
        /\ (IsNone(ret.args.obj) /\ ~IsNone(ret.args.src) /\ ~IsNone(ret.args.name)) =>
              (ret.out.kind = "value" /\ pf.state = "ready")

C7_Witness ==
    /\ ret.op = "__init__"
    /\ ~IsNone(ret.args.obj)
    /\ ~IsNone(ret.args.src)
    /\ ret.out.kind = "raise"

(***************************************************************************)
(* C8.  Every field of every as_ntup result is a string, never None.       *)
(***************************************************************************)
C8_NtupFieldsAreStrings ==
    (ret.op = "as_ntup" /\ ret.out.kind = "value") =>
        \A i \in DOMAIN NtupFields : ret.out.val[NtupFields[i]].py = "str"

(***************************************************************************)
(* C9.  When the parsed tree has no top-level function definition of the   *)
(* target name, func fails with an error of the kind kept for that case,   *)
(* which is none of the construction (ValueError), structural (Exception)  *)
(* or internal (TypeError) kinds, and no node is returned or stored.       *)
(***************************************************************************)
\* The function definitions that are statements of the module itself, bare
\* or under their decorators.
TopLevelFuncdefs(t) ==
    {n \in {IF c.type = "decorated" THEN c.children[Len(c.children)] ELSE c :
                c \in {t.children[i] : i \in DOMAIN t.children}} :
        n.type = "funcdef"}

NoSuchTopLevelFunc ==
    /\ IsSet(pf.tree)
    /\ \A n \in TopLevelFuncdefs(pf.tree) : n.children[2].value # pf.name.s

OtherErrorKinds == {"ValueError", "Exception", "TypeError"}

C9_FuncNotFound ==
    (ret.op = "func" /\ NoSuchTopLevelFunc) =>
        /\ ret.out.kind = "raise"
        /\ ret.out.err = "StopIteration"
        /\ ret.out.err \notin OtherErrorKinds
        /\ IsNone(ret.out.val)
        /\ ~IsSet(pf.func)

C9_Witness ==
    /\ ret.op = "func"
    /\ NoSuchTopLevelFunc
    /\ TopLevelFuncdefs(pf.tree) # {}
    /\ ret.out.kind = "raise"

(***************************************************************************)
(* C13.  as_ntup(use_doc_attr=True) ends as as_ntup(use_doc_attr=False)    *)
(* with the same dedent does, and when it returns, decor, sig and body are *)
(* the same; on an instance built from a callable doc is the callable's    *)
(* __doc__ as it is, neither the text rendered from the tree nor dedented; *)
(* on an instance built from (name, src) doc is the same too.              *)
(***************************************************************************)
C13_DocAttrVerbatim ==
    (ret.op = "as_ntup" /\ ret.args.use_doc_attr) =>
        LET plain == as_ntup(pf, ret.args.dedent, FALSE).r IN
        IF plain.kind # "value" THEN ret.out = plain
        ELSE /\ ret.out.kind = "value"
             /\ ret.out.val.decor = plain.val.decor
             /\ ret.out.val.sig = plain.val.sig
             /\ ret.out.val.body = plain.val.body
             /\ ret.out.val.doc = IF IsNone(pf.obj) THEN plain.val.doc ELSE pf.obj.doc

\* An indented function with a docstring, given as a callable: its doc is
\* __doc__, which is not the docstring statement dedented.
C13_Witness ==
    /\ ret.op = "as_ntup" /\ ret.args.use_doc_attr /\ ret.args.dedent
    /\ ret.out.kind = "value"
    /\ ~IsNone(pf.obj)
    /\ pf.indent_size = Int(1)
    /\ ret.out.val.doc = Str(<<"Doc.">>)
    /\ as_ntup(pf, TRUE, FALSE).r.val.doc = Str(<<" ", "'''Doc.'''", "\n">>)
    /\ ret.out.val.decor = Str(<<"@", "trace", "\n">>)

\* The lines of a text that open, after their indentation, with `@`.
DecoratorLines(text) ==
    LET isdecor(line) == LET n == leading_spaces(line)
                         IN Len(line) > n /\ line[n + 1] = "@"
    IN SelectSeq(splitlines(text), isdecor)

RECURSIVE JoinLines(_)
JoinLines(lines) ==
    IF lines = <<>> THEN <<>> ELSE Head(lines) \o <<"\n">> \o JoinLines(Tail(lines))

\* The comment lines of the sources, and the lines that hold no statement.
CommentAtoms == {"# c", "# d", "# e"}

IsDecoratorLine(line) ==
    LET n == leading_spaces(line) IN Len(line) > n /\ line[n + 1] = "@"

IsFillerLine(line) ==
    LET n == leading_spaces(line) IN Len(line) = n \/ line[n + 1] \in CommentAtoms

\* The lines of a source right above `def name`, back to the statement
\* before them or to the start of the source: decorator lines, comment
\* lines and blank lines.
LinesAboveDef(text, name) ==
    LET lines == splitlines(text)
        isdef(line) == LET n == leading_spaces(line)
                       IN /\ Len(line) >= n + 3
                          /\ line[n + 1] = "def" /\ line[n + 2] = " " /\ line[n + 3] = name
        at == CHOOSE i \in DOMAIN lines : isdef(lines[i])
        RECURSIVE top(_)
        top(i) == IF i > 1 /\ (IsDecoratorLine(lines[i - 1]) \/ IsFillerLine(lines[i - 1]))
                  THEN top(i - 1) ELSE i
    IN SubSeq(lines, top(at), at - 1)

\* The lines up to the last decorator line among them; none without one.
UpToLastDecorator(lines) ==
    LET decs == {i \in DOMAIN lines : IsDecoratorLine(lines[i])}
    IN IF decs = {} THEN <<>>
       ELSE SubSeq(lines, 1, CHOOSE i \in decs : \A j \in decs : j <= i)

(***************************************************************************)
(* C14, as the code has it.  codes.decor is the source text of the         *)
(* function's own decorators in source order, each with what the source    *)
(* has before it since the token before: its indentation and the comment   *)
(* and blank lines above it.  That is the lines right above `def`, from    *)
(* the end of the statement before them (or the start of the source)       *)
(* through the last decorator line; comment lines between the last         *)
(* decorator and `def` are not part of it, nor are the decorators of       *)
(* another function.  It opens with `@` exactly when the first decorator   *)
(* is not indented and no comment or blank line is above it, and it is     *)
(* the empty string exactly when the function has no decorator.            *)
(***************************************************************************)
C14_DecorLines ==
    (ret.op = "codes.decor" /\ ret.out.kind = "value") =>
        LET above == LinesAboveDef(pf.src.s, pf.name.s)
            own == SelectSeq(above, IsDecoratorLine)
            text == ret.out.val.s
        IN /\ text = JoinLines(UpToLastDecorator(above))
           /\ DecoratorLines(text) = own
           /\ (text # <<>> /\ Head(text) = "@") <=>
                  (above # <<>> /\ IsDecoratorLine(above[1])
                      /\ leading_spaces(above[1]) = 0)
           /\ (text = <<>>) <=> (own = <<>>)

(***************************************************************************)
(* C14, as stated.  codes.decor of a function with decorators opens with   *)
(* the `@` of the first; it is the empty string exactly when the function  *)
(* has no decorator.                                                       *)
(***************************************************************************)
C14_DecorStartsWithAt ==
    (ret.op = "codes.decor" /\ ret.out.kind = "value") =>
        LET own == SelectSeq(LinesAboveDef(pf.src.s, pf.name.s), IsDecoratorLine)
            text == ret.out.val.s
        IN /\ own # <<>> => (text # <<>> /\ Head(text) = "@")
           /\ (text = <<>>) <=> (own = <<>>)

\* An indented function under two decorators, with a comment line above
\* each of them and one between the last and `def`: the text opens with the
\* first comment and ends with the last decorator line.
C14_Witness ==
    /\ ret.op = "codes.decor"
    /\ ret.out = Value(Str(<<"# c", "\n", " ", "@", "trace", "\n",
                             " ", "# d", "\n", " ", "@", "wraps", "\n">>))
    /\ Len(splitlines(pf.src.s)) = 7
    /\ Len(LinesAboveDef(pf.src.s, pf.name.s)) = 5

\* The reads of a ParsedFunc: the accessor, and the arguments of as_ntup.
Read(op, dedent, use_doc_attr) == [op |-> op, dedent |-> dedent, use_doc_attr |-> use_doc_attr]

PfReads ==
    {Read(op, FALSE, FALSE)
     : op \in {"tree", "func", "parts", "suite", "codes", "codes.decor", "codes.sig",
               "codes.doc", "codes.body", "indent_size"}}
    \cup {Read("as_ntup", d, u) : d \in BOOLEAN, u \in BOOLEAN}

\* What a read of the instance p returns.
PfRead(c, p) ==
    CASE c.op = "tree" -> tree(p).r
      [] c.op = "func" -> func(p).r
      [] c.op = "parts" -> nodes_parts(p).r
      [] c.op = "suite" -> nodes_suite(p).r
      [] c.op = "codes" -> codes_object(p).r
      [] c.op = "codes.decor" -> codes(p, "decor").r
      [] c.op = "codes.sig" -> codes(p, "sig").r
      [] c.op = "codes.doc" -> codes(p, "doc").r
      [] c.op = "codes.body" -> codes(p, "body").r
      [] c.op = "indent_size" -> get_indent_size(p).r
      [] c.op = "as_ntup" -> as_ntup(p, c.dedent, c.use_doc_attr).r

\* The instance as constructed, nothing read yet.
FreshPf ==
    [pf EXCEPT !.state = "ready", !.tree = Unset, !.func = Unset, !.parts = Unset,
               !.suite = Unset, !.codes = NoCodes, !.indent_size = Unset]

MdReads ==
    {"tree", "cls_or_func_defs", "cls_or_func_suites", "imports", "variables", "defs"}

ModRead(op, m) ==
    CASE op = "tree" -> md_tree(m).v
      [] op = "cls_or_func_defs" -> cls_or_func_defs(m).v
      [] op = "cls_or_func_suites" -> cls_or_func_suites(m).v
      [] op = "imports" -> imports(m).v
      [] op = "variables" -> variables(m).v
      [] op = "defs" -> defs(m).v

FreshMd ==
    [md EXCEPT !.tree = Unset, !.cls_or_func_defs = Unset, !.cls_or_func_suites = Unset,
               !.imports = Unset, !.variables = Unset, !.defs = Unset]

(***************************************************************************)
(* C15.  Whatever accessors of an instance have been read, and in whatever *)
(* order, each accessor returns what it returns when it is the first one   *)
(* read: the value just returned is that one, and so is the value any      *)
(* accessor would return next (the same keys and values for a mapping).    *)
(***************************************************************************)
C15_CachedViews ==
    /\ (pf.state \in {"ready", "hung"} /\ ret.op \in {c.op : c \in PfReads}) =>
           ret.out = PfRead(Read(ret.op, ret.args.dedent, ret.args.use_doc_attr), FreshPf)
    /\ pf.state = "ready" => \A c \in PfReads : PfRead(c, pf) = PfRead(c, FreshPf)
    /\ (md.state = "ready" /\ ret.op \in MdReads) => ret.out.val = ModRead(ret.op, FreshMd)
    /\ md.state = "ready" => \A op \in MdReads : ModRead(op, md) = ModRead(op, FreshMd)

\* cls_or_func_defs read after imports and defs were, of a module with a
\* definition and an import.
C15_Witness ==
    /\ md.state = "ready"
    /\ ret.op = "cls_or_func_defs"
    /\ IsSet(md.imports) /\ IsSet(md.defs) /\ IsSet(md.variables)
    /\ md.imports.items # <<>>
    /\ ret.out.val.items # <<>>
    /\ DictKeys(ret.out.val) # DictKeys(md.defs)

(***************************************************************************)
(* C16.  When the outermost `with` block on a BaseConfig instance is left, *)
(* whatever in-place _update calls were made on the instance in it,        *)
(* through nested dicts too, every field, those of the nested model        *)
(* included, holds what it held when the block was entered, and            *)
(* _context_depth and _backup_stack are what they were then.  (A block in  *)
(* which a field was assigned or deleted by other means than _update, or   *)
(* one entered by an instance that had lost a field, is not one the claim  *)
(* speaks of.)                                                             *)
(***************************************************************************)
C16_BlockRestores ==
    (ret.op = "__exit__" /\ ret.out.kind = "value" /\ cfg.obj._context_depth = 0
        /\ ~cfg.assigned /\ Whole(cfg.entry)) =>
        /\ dict_eq(model_dump(cfg.obj), model_dump(cfg.entry))
        /\ cfg.obj.fields = cfg.entry.fields
        /\ cfg.obj._context_depth = cfg.entry._context_depth
        /\ cfg.obj._backup_stack = cfg.entry._backup_stack

\* A block left after an update in it had changed the nested model.
C16_Witness ==
    /\ ret.op = "__exit__" /\ ret.out.kind = "value"
    /\ cfg.obj._context_depth = 0
    /\ ~cfg.assigned
    /\ cfg.nested_changed
    /\ cfg.obj = cfg.entry
    /\ Whole(cfg.obj)
    /\ cfg.obj.fields.pp.fields.color = Str("blue")

\* The dump d with the updates written over it, level by level.
RECURSIVE Merged(_, _)
Merged(d, updates) ==
    Dict([i \in DOMAIN d.items |->
            IF ~DictHas(updates, d.items[i][1]) THEN d.items[i]
            ELSE IF IsDict(d.items[i][2]) /\ IsDict(DictGet(updates, d.items[i][1]))
            THEN <<d.items[i][1], Merged(d.items[i][2], DictGet(updates, d.items[i][1]))>>
            ELSE <<d.items[i][1], DictGet(updates, d.items[i][1])>>])

(***************************************************************************)
(* C17.  _update(updates, copy=True) leaves the instance as it was, its    *)
(* fields, its nested model, _context_depth and _backup_stack; when it     *)
(* returns, it returns an instance whose fields are the original's with    *)
(* the updates written over them, those of the nested model through the    *)
(* nested dict, and which is in no block.                                  *)
(***************************************************************************)
C17_CopyUpdate ==
    [][(ret'.op = "_update" /\ ret'.args.copy) =>
          /\ cfg'.obj = cfg.obj
          /\ ret'.out.kind = "value" =>
                /\ IsModel(ret'.out.val)
                /\ dict_eq(model_dump(ret'.out.val),
                           Merged(model_dump(cfg.obj), ret'.args.updates))
                /\ ret'.out.val._context_depth = 0
                /\ ret'.out.val._backup_stack = <<>>]_vars

\* A copy with a field and a nested field updated, made of an instance that
\* is inside a block and stays as it is.
C17_Witness ==
    /\ ret.op = "_update" /\ ret.args.copy /\ ret.out.kind = "value"
    /\ Whole(cfg.obj)
    /\ ret.out.val.fields.debug = Bool(TRUE)
    /\ ret.out.val.fields.pp.fields.color = Str("red")
    /\ ret.out.val.fields.pp.fields.width = Int(80)
    /\ cfg.obj.fields.debug = Bool(FALSE)
    /\ cfg.obj.fields.pp.fields.color = Str("blue")
    /\ cfg.obj._context_depth = 1

(***************************************************************************)
(* C18.  When a `with options.set_values(updates)` block has been left,    *)
(* normally or by an exception raised in it, every option, those of the    *)
(* nested model included, holds what it held right before the block was    *)
(* entered.                                                                *)
(***************************************************************************)
C18_SetValuesRestores ==
    ret.op = "set_values.__exit__" =>
        /\ model_dump(cfg.obj) = model_dump(cfg.entry)
        /\ cfg.obj = cfg.entry
        /\ ~cfg.inside

\* A block left by an exception after the nested options had changed.
C18_Witness ==
    /\ ret.op = "set_values.__exit__"
    /\ ret.out.kind = "raise"
    /\ cfg.nested_changed
    /\ cfg.obj.fields.pp.fields.color = Str("blue")
    /\ cfg.obj = cfg.entry

(***************************************************************************)
(* C19.  set_values({'pp.color': 'red'}) raises nothing: the block is      *)
(* entered, and in it the nested option pp.color is 'red'.                 *)
(***************************************************************************)
C19_DottedKeys ==
    (ret.op = "set_values" /\ ret.args.updates = Dict(<<<<"pp.color", Str("red")>>>>)) =>
        /\ ret.out.kind = "value"
        /\ cfg.inside
        /\ cfg.obj.fields.pp.fields.color = Str("red")

\* The leaves of a mapping: the names that lead to each, and its value.
RECURSIVE LeavesOf(_, _)
LeavesOf(m, path) ==
    UNION {IF IsMapping(m.at[k]) THEN LeavesOf(m.at[k], Append(path, k))
           ELSE {<<Append(path, k), m.at[k]>>} : k \in DOMAIN m.at}

\* The path is the dotted key, or lies under it.
AtOrUnder(path, key) ==
    Len(split(key)) <= Len(path) /\ SubSeq(path, 1, Len(split(key))) = split(key)

AtOrUnderOne(path, keys) ==
    ~IsNone(keys) /\ \E i \in DOMAIN keys.items : AtOrUnder(path, keys.items[i])

(***************************************************************************)
(* C20.  map_dot_subset(base, includes, excludes) returns a mapping whose  *)
(* leaves are exactly the leaves of base whose path is at or under one of  *)
(* the includes (every leaf when includes is None) and neither at nor      *)
(* under one of the excludes, each at the place it has in base.            *)
(***************************************************************************)
C20_SubsetByPath ==
    ret.op = "map_dot_subset" =>
        /\ ret.out.kind = "value"
        /\ LeavesOf(ret.out.val, <<>>) =
              {l \in LeavesOf(ret.args.base, <<>>) :
                  /\ IsNone(ret.args.includes) \/ AtOrUnderOne(l[1], ret.args.includes)
                  /\ ~AtOrUnderOne(l[1], ret.args.excludes)}

\* What the code returns: the leaves that are not None, whose dotted key
\* starts with the text of one of the includes when there is one.
C20_SubsetByText ==
    ret.op = "map_dot_subset" =>
        LeavesOf(ret.out.val, <<>>) =
            {l \in LeavesOf(ret.args.base, <<>>) :
                /\ ~IsNone(l[2])
                /\ \/ IsNone(ret.args.includes)
                   \/ ret.args.includes.items = <<>>
                   \/ \E i \in DOMAIN ret.args.includes.items :
                          startswith(IF Len(l[1]) = 1 THEN l[1][1]
                                     ELSE full_key(l[1][1], l[1][2]),
                                     ret.args.includes.items[i])
                /\ ~AtOrUnderOne(l[1], ret.args.excludes)}

\* dict equality: the same keys with equal values, in whatever order.
RECURSIVE DictEq(_, _)
DictEq(a, b) ==
    /\ DictKeys(a) = DictKeys(b)
    /\ \A k \in DictKeys(a) :
           IF IsDict(DictGet(a, k)) /\ IsDict(DictGet(b, k))
           THEN DictEq(DictGet(a, k), DictGet(b, k))
           ELSE DictGet(a, k) = DictGet(b, k)

\* No key of the dict, at any depth, contains the separator.
RECURSIVE NoDotInKeys(_)
NoDotInKeys(d) ==
    \A i \in DOMAIN d.items :
        /\ \A j \in DOMAIN d.items[i][1] : d.items[i][1][j] # "."
        /\ IsDict(d.items[i][2]) => NoDotInKeys(d.items[i][2])

\* No value of the dict, at any depth, is an empty dict.
RECURSIVE NoEmptyDictIn(_)
NoEmptyDictIn(d) ==
    \A i \in DOMAIN d.items :
        IsDict(d.items[i][2]) =>
            d.items[i][2] # EmptyDict /\ NoEmptyDictIn(d.items[i][2])

\* The empty key, if the dict has it at its top, does not hold a dict.
NoDictAtEmptyKey(d) ==
    \A i \in DOMAIN d.items : d.items[i][1] = <<>> => ~IsDict(d.items[i][2])

(***************************************************************************)
(* C21.  For every nested dict whose keys are strings without a '.',       *)
(* unflatten_dict(flatten_dict(d)) equals d.                               *)
(***************************************************************************)
C21_RoundTrip ==
    (ret.op = "unflatten_dict" /\ NoDotInKeys(ret.args.d)) =>
        ret.out.kind = "value" /\ DictEq(ret.out.val, ret.args.d)

\* C21 as it holds: the round trip gives d back when, besides, no value of
\* d at any depth is an empty dict and the empty key at the top of d does
\* not hold a dict.
C21_RoundTripOfLeaves ==
    (/\ ret.op = "unflatten_dict"
     /\ NoDotInKeys(ret.args.d)
     /\ NoEmptyDictIn(ret.args.d)
     /\ NoDictAtEmptyKey(ret.args.d)) =>
        ret.out.kind = "value" /\ DictEq(ret.out.val, ret.args.d)

\* A dict with a dict in a dict comes back from the round trip.
C21_Witness ==
    /\ ret.op = "unflatten_dict"
    /\ NoDotInKeys(ret.args.d) /\ NoEmptyDictIn(ret.args.d) /\ NoDictAtEmptyKey(ret.args.d)
    /\ \E i \in DOMAIN ret.args.d.items :
           /\ IsDict(ret.args.d.items[i][2])
           /\ \E j \in DOMAIN ret.args.d.items[i][2].items :
                  IsDict(ret.args.d.items[i][2].items[j][2])
    /\ ret.args.obj.items = <<<<<<"a", ".", "b", ".", "a">>, Int(1)>>>>
    /\ ret.out.kind = "value"
    /\ DictEq(ret.out.val, ret.args.d)

\* The files under src with no counterpart under dst, before the call.
Uncopied(before) ==
    {rel \in DOMAIN before.src :
        before.src[rel].kind = "file" /\ ~dst_exists(before.dst, rel)}

\* The files under a destination.
DstFiles(dst) == {rel \in DOMAIN dst.at : dst.at[rel].kind = "file"}

\* Every file and folder that was under dst is there as it was.
DstKept(before, after) ==
    \A rel \in DOMAIN before.dst.at :
        rel \in DOMAIN after.dst.at /\ after.dst.at[rel] = before.dst.at[rel]

\* dry_run=False has copied exactly the files of `rels`.
CopiedExactly(before, after, rels) ==
    /\ after.src = before.src
    /\ DstKept(before, after)
    /\ DstFiles(after.dst) \ DstFiles(before.dst) = rels
    /\ \A rel \in rels : after.dst.at[rel] = before.src[rel]

(***************************************************************************)
(* C22.  safe_copytree with dry_run=True creates or modifies no file and   *)
(* returns exactly the (src, dst) pairs of the files under src that have   *)
(* no counterpart under dst; with dry_run=False it copies exactly those    *)
(* pairs, returns None, and leaves every file already under dst unchanged. *)
(* (The calls are those that pass the checks of the arguments, without     *)
(* raise_if_exists.)                                                       *)
(***************************************************************************)
C22_CopiesTheUncopied ==
    (/\ ret.op = "safe_copytree"
     /\ ~ret.args.raise_if_exists
     /\ ret.args.before.dst.kind # "file") =>
        IF ret.args.dry_run
        THEN /\ fs = ret.args.before
             /\ ret.out.kind = "value"
             /\ {ret.out.val.items[i] : i \in DOMAIN ret.out.val.items}
                    = {<<SrcPath(rel), DstPath(rel)>> : rel \in Uncopied(ret.args.before)}
             /\ Len(ret.out.val.items) = Cardinality(Uncopied(ret.args.before))
        ELSE /\ ret.out = Value(None)
             /\ CopiedExactly(ret.args.before, fs, Uncopied(ret.args.before))

\* A file under dst stands where src has a folder with a file of its own.
FileInTheWay(before) ==
    \E rel \in Uncopied(before) :
        \E q \in Parents(rel) : q \in DOMAIN before.dst.at /\ before.dst.at[q].kind = "file"

\* What the code does: the same, as long as no file under dst stands where
\* src has a folder; when one does, dry_run=True still lists the files
\* under that folder, and dry_run=False raises and leaves what was under dst
\* as it was.
C22_CopiesUnlessInTheWay ==
    (/\ ret.op = "safe_copytree"
     /\ ~ret.args.raise_if_exists
     /\ ret.args.before.dst.kind # "file") =>
        IF FileInTheWay(ret.args.before) /\ ~ret.args.dry_run
        THEN /\ ret.out.kind = "raise"
             /\ ret.out.err \in {"FileExistsError", "NotADirectoryError"}
             /\ fs.src = ret.args.before.src
             /\ DstKept(ret.args.before, fs)
        ELSE C22_CopiesTheUncopied

(***************************************************************************)
(* C23.  The leading scan of the suite ends for every suite, and the suite *)
(* value is returned: each turn of the loop takes a child or stops, also   *)
(* when the first child after the newlines is a simple statement that does *)
(* not start with a string.                                                *)
(***************************************************************************)
C23_ScanTerminates == <>(scan.pc = "done")

\* What the code does: the scan ends, with the value of suite_scan, unless
\* the first child after the newlines is a simple statement that does not
\* start with a string; then it never ends.
C23_ScanEndsLikeSuiteScan ==
    scan.pc = "done" =>
        /\ ret.out = suite_scan(scan.suite.children, <<>>)
        /\ ret.out.kind = "value"

C23_ScanEndsUnlessPlainStatement ==
    (scan.pc = "while" /\ suite_scan(scan.suite.children, <<>>) # Diverges)
        ~> (scan.pc = "done")

C23_ScanLoopsOnPlainStatement ==
    [](suite_scan(scan.suite.children, <<>>) = Diverges => [](scan.pc # "done"))

\* Child 3 of the function node is the ':' operator.
ColonAtThree(node) ==
    node.children[4].type = "operator" /\ node.children[4].value = ":"

(***************************************************************************)
(* C24.  parts takes kw_def, name and parms from children 0, 1 and 2 of    *)
(* the function node; when child 3 is the ':' operator, colon is child 3,  *)
(* suite child 4, and arrow and annotation are absent; otherwise arrow is  *)
(* child 3, annotation child 4, colon child 5 and suite child 6.  In every *)
(* FuncParts returned arrow and annotation are both there or both absent,  *)
(* and kw_def, name, parms, colon and suite are all there.                 *)
(***************************************************************************)
C24_PartsByPosition ==
    (ret.op = "parts" /\ ret.out.kind = "value") =>
        /\ ret.out.val.kw_def = pf.func.children[1]
        /\ ret.out.val.name = pf.func.children[2]
        /\ ret.out.val.parms = pf.func.children[3]
        /\ IF ColonAtThree(pf.func)
           THEN /\ ret.out.val.colon = pf.func.children[4]
                /\ ret.out.val.suite = pf.func.children[5]
                /\ IsNone(ret.out.val.arrow)
                /\ IsNone(ret.out.val.annotation)
           ELSE /\ ret.out.val.arrow = pf.func.children[4]
                /\ ret.out.val.annotation = pf.func.children[5]
                /\ ret.out.val.colon = pf.func.children[6]
                /\ ret.out.val.suite = pf.func.children[7]
        /\ IsNone(ret.out.val.arrow) <=> IsNone(ret.out.val.annotation)
        /\ \A a \in {"kw_def", "name", "parms", "colon", "suite"} :
               ~IsNone(ret.out.val[a])

\* The parts of a function with a return annotation.
C24_Witness ==
    /\ ret.op = "parts"
    /\ ret.out.kind = "value"
    /\ ~ColonAtThree(pf.func)
    /\ ret.out.val.arrow.value = "->"
    /\ ret.out.val.colon.value = ":"
    /\ ret.out.val.suite.type = "suite"

\* The function node has children after those the decomposition takes.
Unconsumed(node) ==
    IF ColonAtThree(node) THEN Len(node.children) > 5 ELSE Len(node.children) > 7

(***************************************************************************)
(* C25.  When a child of the function node is left over after the          *)
(* decomposition by position, parts raises and returns no FuncParts, and   *)
(* the failed access stores nothing: whatever has been accessed before,    *)
(* parts, suite and the sig, doc and body that depend on it raise, and     *)
(* none of them holds a value.                                             *)
(***************************************************************************)
C25_UnconsumedRaises ==
    (pf.state = "ready" /\ IsSet(pf.func) /\ Unconsumed(pf.func)) =>
        /\ ~IsSet(pf.parts)
        /\ ~IsSet(pf.suite)
        /\ \A a \in {"sig", "doc", "body"} : ~IsSet(pf.codes[a])
        /\ ret.op \in {"parts", "suite", "codes.sig", "codes.doc", "codes.body"} =>
               ret.out = Raise("Exception")

\* The body asked of a function node with a child after its suite.
C25_Witness ==
    /\ pf.state = "ready"
    /\ Unconsumed(pf.func)
    /\ ret.op = "codes.body"
    /\ ret.out = Raise("Exception")
    /\ ~IsSet(pf.parts)

\* The functions of the module's own scope, each by its name and the line
\* of its `def`, in document order: the functions that are statements of
\* the module or of the block of an `if` of the module.  Those in the block
\* of a function or of a class are not among them.
RECURSIVE TopLevelDefs(_, _)
TopLevelDefs(forest, ln) ==
    IF forest = <<>> THEN <<>>
    ELSE (IF Head(forest).kind = "def"
          THEN <<[name |-> Head(forest).name, line |-> ln]>>
          ELSE IF Head(forest).kind = "if"
               THEN TopLevelDefs(Head(forest).kids, ln + 1)
               ELSE <<>>)
         \o TopLevelDefs(Tail(forest), ln + ItemLines(Head(forest)))

TopLevelNamed(forest, name) ==
    SelectSeq(TopLevelDefs(forest, 1), LAMBDA d : d.name = name)

\* Every function of the source, nested or not, by name and line.
RECURSIVE AllDefs(_, _)
AllDefs(forest, ln) ==
    IF forest = <<>> THEN {}
    ELSE (IF Head(forest).kind = "def"
          THEN {[name |-> Head(forest).name, line |-> ln]} ELSE {})
         \cup AllDefs(Head(forest).kids, ln + 1)
         \cup AllDefs(Tail(forest), ln + ItemLines(Head(forest)))

(***************************************************************************)
(* C26.  func returns the first function, in document order, among the     *)
(* functions of the module's top level that have the target name (the      *)
(* top level being the module's own scope); a function nested in another   *)
(* function or in a class is never returned, whatever its name.            *)
(***************************************************************************)
C26_FirstTopLevel ==
    (ret.op = "func" /\ ret.out.kind = "value") =>
        /\ TopLevelNamed(pf.src.forest, pf.name.s) # <<>>
        /\ ret.out.val.type = "funcdef"
        /\ ret.out.val.children[2].value = pf.name.s
        /\ ret.out.val.line = TopLevelNamed(pf.src.forest, pf.name.s)[1].line

\* A name asked of a module where a function of that name nested in another
\* function comes before the one of the top level, which is returned.
C26_Witness ==
    /\ ret.op = "func"
    /\ ret.out.kind = "value"
    /\ pf.src.forest[1].kind = "def"
    /\ ret.out.val.line = TopLevelNamed(pf.src.forest, pf.name.s)[1].line
    /\ \E d \in AllDefs(pf.src.forest, 1) :
           /\ d.name = pf.name.s
           /\ d.line < ret.out.val.line

\* The step leaves a block that is open.
LeavesBlock == ret'.op = "__exit__" /\ cfg.state = "ready" /\ cfg.obj._context_depth > 0

(***************************************************************************)
(* C27.  With blocks inside one another on one instance and in-place       *)
(* updates anywhere, leaving a block, inner or outer, leaves every field   *)
(* with what it held when that block was entered: leaving the inner block  *)
(* keeps what the outer block had set before the inner one was entered.    *)
(***************************************************************************)
C27_EachBlockRestores ==
    [][LeavesBlock =>
          model_dump(cfg'.obj) = model_dump(cfg.entries[Len(cfg.entries)])]_vars

\* What the code does for the outermost block: leaving it leaves every
\* field with what it held when it was entered.
C27_OutermostRestores ==
    [][(LeavesBlock /\ cfg.obj._context_depth = 1) =>
          model_dump(cfg'.obj) = model_dump(cfg.entries[1])]_vars

\* What the code does for an inner block: leaving it restores the backup
\* on top of the stack, whichever block it was taken in, and nothing when
\* there is none.
C27_InnerRestoresLastBackup ==
    [][LeavesBlock =>
          model_dump(cfg'.obj) =
              IF cfg.obj._backup_stack = <<>> THEN model_dump(cfg.obj)
              ELSE cfg.obj._backup_stack[Len(cfg.obj._backup_stack)]]_vars

\* 0 <= len(_backup_stack) <= _context_depth
StackWithinDepth(self) ==
    /\ 0 <= Len(self._backup_stack)
    /\ Len(self._backup_stack) <= self._context_depth

(***************************************************************************)
(* C28.  In every state reached by __enter__, __exit__ and _update calls   *)
(* on an instance, 0 <= len(_backup_stack) <= _context_depth; an __exit__  *)
(* when _context_depth is 0 raises RuntimeError and leaves _context_depth, *)
(* _backup_stack and every field as they were.                             *)
(***************************************************************************)
C28_StackWithinDepth ==
    [][/\ cfg'.state = "ready" => StackWithinDepth(cfg'.obj)
       /\ (ret'.op = "__exit__" /\ cfg.state = "ready" /\ cfg.obj._context_depth = 0) =>
              /\ ret'.out = Raise("RuntimeError")
              /\ cfg'.obj = cfg.obj]_vars

\* The first half as a property of the state: it holds of the instance as
\* constructed and of the instance after every call.
C28_StackWithinDepthAlways ==
    cfg.state = "ready" => StackWithinDepth(cfg.obj)

\* Two blocks are open and an update has taken the second backup: the
\* stack holds as many backups as it may.
C28_Witness ==
    /\ cfg.state = "ready"
    /\ ret.op = "_update"
    /\ ret.out = Value(None)
    /\ cfg.obj._context_depth = 2
    /\ Len(cfg.obj._backup_stack) = 2

\* An __exit__ with no block open has raised, after a block was left.
C28_MismatchedExitReached ==
    /\ cfg.state = "ready"
    /\ ret.op = "__exit__"
    /\ ret.out = Raise("RuntimeError")
    /\ cfg.obj._context_depth = 0
    /\ cfg.obj.fields.pp.fields.color = Str("red")

\* The dict names a key that is no field of the model, or gives a nested
\* model a dict that does.
RECURSIVE NamesUnknownKey(_, _)
NamesUnknownKey(model, updates) ==
    \E i \in DOMAIN updates.items :
        \/ ~HasField(model.cls, updates.items[i][1])
        \/ /\ updates.items[i][1] \in DOMAIN model.fields
           /\ model.fields[updates.items[i][1]].py = "model"
           /\ updates.items[i][2].py = "dict"
           /\ NamesUnknownKey(model.fields[updates.items[i][1]], updates.items[i][2])

\* The update is a dict whose first key is a field and whose last key, or
\* a key of the dict it gives, is none.
UnknownAfterValid(model, updates) ==
    /\ updates.py = "dict"
    /\ Len(updates.items) = 2
    /\ hasattr(model, updates.items[1][1])
    /\ ~NamesUnknownKey(model, Dict(<<updates.items[1]>>))
    /\ NamesUnknownKey(model, Dict(<<updates.items[2]>>))

(***************************************************************************)
(* C29.  _update with validate_updates=True and a dict naming a key that   *)
(* is no field of the model, at the top level or in a dict given for a     *)
(* nested model, raises ValueError before any field is assigned: the       *)
(* fields, the nested models, _context_depth and _backup_stack are as they *)
(* were, also when the key comes after keys that are fields.  (On an       *)
(* instance a field of which was deleted, the getattr of that field may    *)
(* raise AttributeError first; nothing is assigned then either.)           *)
(***************************************************************************)
C29_UnknownKeyChangesNothing ==
    [][(/\ ret'.op = "_update"
        /\ cfg.state = "ready"
        /\ ret'.args.updates.py = "dict"
        /\ NamesUnknownKey(cfg.obj, ret'.args.updates)) =>
           /\ \/ ret'.out = Raise("ValueError")
              \/ ~Whole(cfg.obj) /\ ret'.out = Raise("AttributeError")
           /\ cfg'.obj = cfg.obj]_vars

\* Inside a block with no backup yet, an update whose first key is a field
\* with a new value and whose second key is no field has raised.
C29_Witness ==
    /\ cfg.state = "ready"
    /\ ret.op = "_update"
    /\ ~ret.args.copy
    /\ Whole(cfg.obj)
    /\ ret.out = Raise("ValueError")
    /\ UnknownAfterValid(cfg.obj, ret.args.updates)
    /\ ret.args.updates.items[1] = <<"debug", Bool(TRUE)>>
    /\ cfg.obj.fields.debug = Bool(FALSE)
    /\ cfg.obj._context_depth = 1
    /\ cfg.obj._backup_stack = <<>>
    /\ ret.out = Raise("ValueError")

\* The step is a set_values call that raises at its first update.
SetValuesFails == ret'.op = "set_values" /\ ret'.out.kind = "raise"

(***************************************************************************)
(* C30.  When entering options.set_values(updates) fails, for a key that   *)
(* is no field or a value that fails validation, the options are as they   *)
(* were before the call: no field holds one of the temporary values.       *)
(***************************************************************************)
C30_FailedEntryChangesNothing ==
    [][SetValuesFails => cfg'.obj = cfg.obj]_vars

\* What the code does: a failed entry changes nothing when it raises for
\* something that is no dict or for a key that is no field, at any level.
C30_FailedEntryOfUnknownKey ==
    [][(SetValuesFails
          /\ (ret'.args.updates.py = "dict" => NamesUnknownKey(cfg.obj, ret'.args.updates))) =>
          cfg'.obj = cfg.obj]_vars

\* And when a value fails validation, the keys before it have been set and
\* stay set: the options are as the same update made in place leaves them.
C30_FailedEntryKeepsEarlierKeys ==
    [][SetValuesFails =>
          cfg'.obj = _update(cfg.obj, ret'.args.updates, FALSE, TRUE).m]_vars

====
